---- MODULE Spec2Model ----
(***************************************************************************)
(* Image preprocessing and quality-analysis pipeline of flavorsnap:        *)
(* ImageProcessor (imageProcessor.ts), the upload route (upload.ts) that   *)
(* drives it, and the analyze route with its measures, scores, bands and   *)
(* recommendations.                                                        *)
(*                                                                         *)
(* Every `await` of the source is a step boundary, and so is every stage   *)
(* of the pipeline.  Date.now() is the variable `now`.                     *)
(* Multiplicative factors (1.2, 0.9, 1.15, 0.95, 1) are kept in hundredths *)
(* (120, 90, 115, 95, 100).  Math.round(n/d) is Round(n, d).               *)
(***************************************************************************)
EXTENDS Integers, Sequences, FiniteSets, TLC

VARIABLES
    now,            \* Date.now(), in milliseconds since the server started
    pc,             \* pc[r]: where request r stands in router.post('/')
    upload,         \* upload[r]: the file multer stored for r (req.file)
    originals,      \* uploads/original: the requests whose upload file exists
    metadata,       \* metadata[r]: `metadata` of processImage
    rotation,       \* rotation[r]: `rotation` of processImage
    preprocessing,  \* preprocessing[r]: the PreprocessingInfo being built
    pipeline,       \* pipeline[r]: the sharp pipeline: image size and queued operations
    outputPath,     \* outputPath[r]: finalOutputPath (the timestamp in its name)
    processed,      \* uploads/processed: timestamp -> file, or NoFile
    written,        \* written[r]: what r's pipeline.toFile wrote, or NoFile
    finalMetadata,  \* finalMetadata[r]: metadata re-read from finalOutputPath
    thumbnailPath,  \* thumbnailPath[r]: the timestamp in the thumbnail's name, or Null
    thumbnails,     \* uploads/thumbnails: timestamp -> file, or NoFile
    response,       \* response[r]: what the endpoint answered
    timers,         \* the requests whose deferred cleanup (setTimeout) is pending
    quality,        \* the analyze route's measured values and their score
    analysis,       \* analysis[r]: request r of the analyze route and what it found
    temp,           \* uploads/temp: timestamp -> the file stored under that name, or NoTemp
    thumb,          \* a call of createThumbnail(inputPath, size) and what it wrote
    cleanup         \* a call of cleanupTempFiles(paths) and what it did to the disk

vars == <<now, pc, upload, originals, metadata, rotation, preprocessing, pipeline,
          outputPath, processed, written, finalMetadata, thumbnailPath, thumbnails,
          response, timers, quality, analysis, temp, thumb, cleanup>>

uploadVars == <<now, pc, upload, originals, metadata, rotation, preprocessing, pipeline,
                outputPath, processed, written, finalMetadata, thumbnailPath, thumbnails,
                response, timers>>

----------------------------------------------------------------------------
(* Bounds of the model *)

NReq == 2           \* concurrent requests of the concurrent specification
MaxTime == 1        \* the clock runs over 0..MaxTime

Reqs == 1..NReq
Times == 0..MaxTime

Null == -1
NoFile == [owner |-> 0, width |-> 0, height |-> 0, format |-> "", ops |-> <<>>, source |-> 0]

----------------------------------------------------------------------------
(* Program constants *)

MAX_SIZE == 4096
MIN_SIZE == 224
TARGET_QUALITY == 85
TARGET_FORMAT == "jpeg"
SUPPORTED_FORMATS == {"jpeg", "jpg", "png", "webp", "tiff", "bmp"}
THUMBNAIL_SIZE == 150

----------------------------------------------------------------------------
(* Arithmetic *)

Max(a, b) == IF a >= b THEN a ELSE b
Min(a, b) == IF a <= b THEN a ELSE b

\* Math.round(n / d) for n >= 0, d > 0: the nearest integer, halves upwards
Round(n, d) == (2 * n + d) \div (2 * d)

\* String.prototype.toLowerCase on the strings the model uses
toLowerCase(s) ==
    CASE s = "JPEG" -> "jpeg"
      [] s = "JPG"  -> "jpg"
      [] s = "PNG"  -> "png"
      [] OTHER      -> s

RECURSIVE SumStdev(_)
SumStdev(channels) ==
    IF channels = <<>> THEN 0
    ELSE Head(channels).stdev + SumStdev(Tail(channels))

----------------------------------------------------------------------------
(* ImageProcessor: the pure parts *)

\* isSupportedFormat
isSupportedFormat(format) == toLowerCase(format) \in SUPPORTED_FORMATS

\* The switch of detectRotation's primary path (ExifParser): result.tags.Orientation.
\* Tag 0 stands for an absent tag (`if (!orientation) return 0`).
PrimaryAngle(orientation) ==
    IF orientation = 0 THEN 0
    ELSE CASE orientation = 3 -> 180
           [] orientation = 6 -> 90
           [] orientation = 8 -> 270
           [] OTHER -> 0

\* The secondary switch with the quarter turns exchanged
SecondaryAngleSwapped(orientation) ==
    IF orientation # 0
    THEN CASE orientation = 3 -> 180
           [] orientation = 6 -> 270
           [] orientation = 8 -> 90
           [] OTHER -> 0
    ELSE 0

\* The switch of detectRotation's secondary path (Jimp): exif.orientation
SecondaryAngle(orientation) ==
    IF orientation # 0
    THEN CASE orientation = 3 -> 180
           [] orientation = 6 -> 90
           [] orientation = 8 -> 270
           [] OTHER -> 0
    ELSE 0

\* detectNoise whose threshold is reached by an average of exactly 30
detectNoiseInclusive(stats) ==
    IF ~stats.ok THEN FALSE
    ELSE IF Len(stats.channels) = 0 THEN FALSE
    ELSE SumStdev(stats.channels) >= 30 * Len(stats.channels)

\* detectNoise, given what sharp(imagePath).raw().stats() gave
detectNoise(stats) ==
    IF ~stats.ok THEN FALSE
    ELSE IF Len(stats.channels) = 0 THEN FALSE
    ELSE SumStdev(stats.channels) > 30 * Len(stats.channels)

\* analyzeImageQuality whose comparisons include the thresholds themselves
analyzeImageQualityInclusive(stats) ==
    IF ~stats.ok THEN [contrast |-> 100, brightness |-> 100]
    ELSE IF Len(stats.channels) = 0 THEN [contrast |-> 100, brightness |-> 100]
    ELSE LET channel == stats.channels[1]
             mean == channel.mean
             stdDev == channel.stdev
             brightness == IF mean <= 80 THEN 120 ELSE IF mean >= 180 THEN 90 ELSE 100
             contrast == IF stdDev <= 20 THEN 115 ELSE IF stdDev >= 60 THEN 95 ELSE 100
         IN [contrast |-> contrast, brightness |-> brightness]

\* analyzeImageQuality, given what sharp(imagePath).raw().stats() gave
analyzeImageQuality(stats) ==
    IF ~stats.ok THEN [contrast |-> 100, brightness |-> 100]
    ELSE IF Len(stats.channels) = 0 THEN [contrast |-> 100, brightness |-> 100]
    ELSE LET channel == stats.channels[1]
             mean == channel.mean
             stdDev == channel.stdev
             brightness == IF mean < 80 THEN 120 ELSE IF mean > 180 THEN 90 ELSE 100
             contrast == IF stdDev < 20 THEN 115 ELSE IF stdDev > 60 THEN 95 ELSE 100
         IN [contrast |-> contrast, brightness |-> brightness]

\* calculateTargetDimensions without its second branch (the height is never capped)
calculateTargetDimensionsNoHeightCap(originalWidth, originalHeight, maxWidth, maxHeight) ==
    IF originalWidth > maxWidth
    THEN [width |-> maxWidth, height |-> Round(maxWidth * originalHeight, originalWidth)]
    ELSE [width |-> originalWidth, height |-> originalHeight]

\* calculateTargetDimensions: aspectRatio = originalWidth / originalHeight, so
\* width / aspectRatio = width * originalHeight / originalWidth
calculateTargetDimensions(originalWidth, originalHeight, maxWidth, maxHeight) ==
    LET width1 == IF originalWidth > maxWidth THEN maxWidth ELSE originalWidth
        height1 == IF originalWidth > maxWidth
                   THEN Round(maxWidth * originalHeight, originalWidth)
                   ELSE originalHeight
        height2 == IF height1 > maxHeight THEN maxHeight ELSE height1
        width2 == IF height1 > maxHeight
                  THEN Round(maxHeight * originalWidth, originalHeight)
                  ELSE width1
    IN [width |-> width2, height |-> height2]

\* pipeline.rotate(angle): a quarter turn swaps the sides of the image
Rotate(img, angle) ==
    IF angle \in {90, 270}
    THEN [width |-> img.height, height |-> img.width]
    ELSE [width |-> img.width, height |-> img.height]

\* pipeline.resize(width, height, {fit: 'inside', withoutEnlargement: true}) on an
\* image of size img: as large as possible within width x height, aspect ratio
\* kept, never enlarged; a side that rounds to nothing is one pixel.
ResizeInside(img, width, height) ==
    IF img.width <= width /\ img.height <= height
    THEN [width |-> img.width, height |-> img.height]
    ELSE IF img.width * height >= img.height * width
         THEN [width |-> width, height |-> Max(1, Round(img.height * width, img.width))]
         ELSE [width |-> Max(1, Round(img.width * height, img.height)), height |-> height]

\* resize(width, height, {fit: 'inside'}) in the place of the cover fit
ResizeCoverInside(img, width, height) ==
    IF img.width * height >= img.height * width
    THEN [width |-> width, height |-> Max(1, Round(img.height * width, img.width))]
    ELSE [width |-> Max(1, Round(img.width * height, img.height)), height |-> height]

\* resize(width, height, {fit: 'cover', position: 'center'}) on an image of size
\* img: scaled, up or down, until it covers width x height, aspect ratio kept,
\* then cropped about its centre to what of width x height it covers
ResizeCover(img, width, height) ==
    LET scaled == IF img.width * height >= img.height * width
                  THEN [width |-> Round(img.width * height, img.height), height |-> height]
                  ELSE [width |-> width, height |-> Round(img.height * width, img.width)]
    IN [width |-> Min(scaled.width, width), height |-> Min(scaled.height, height)]

\* sharp's resize rejects a width or height that is not a positive integer
ResizeThrows(width, height) == width < 1 \/ height < 1

\* generateOutputPath / generateThumbnailPath: the name holds Date.now() only
generateOutputPath(t) == t
generateThumbnailPath(t) == t

\* What the loop has done so far, before its first iteration
CleanupStart(files) ==
    [files |-> files, outcome |-> <<>>, logged |-> <<>>, raised |-> FALSE]

\* cleanupTempFiles with the try around the whole loop: the first deletion that
\* fails is logged and ends the loop
RECURSIVE cleanupTempFilesOuterTry(_, _, _)
cleanupTempFilesOuterTry(paths, failing, st) ==
    IF paths = <<>> THEN st
    ELSE LET path == Head(paths)
         IN IF path \notin st.files
            THEN cleanupTempFilesOuterTry(Tail(paths), failing,
                     [st EXCEPT !.outcome = Append(@, "skipped")])
            ELSE IF path \in failing
            THEN [st EXCEPT !.outcome = Append(@, "failed"),
                            !.logged = Append(@, path)]
            ELSE cleanupTempFilesOuterTry(Tail(paths), failing,
                     [st EXCEPT !.files = @ \ {path},
                                !.outcome = Append(@, "deleted")])

\* cleanupTempFiles: for each path in turn, inside its own try, unlinkSync if
\* existsSync; the catch logs with console.warn and the loop goes on
RECURSIVE cleanupTempFiles(_, _, _)
cleanupTempFiles(paths, failing, st) ==
    IF paths = <<>> THEN st
    ELSE LET path == Head(paths)
         IN IF path \notin st.files
            THEN cleanupTempFiles(Tail(paths), failing,
                     [st EXCEPT !.outcome = Append(@, "skipped")])
            ELSE IF path \in failing
            THEN cleanupTempFiles(Tail(paths), failing,
                     [st EXCEPT !.outcome = Append(@, "failed"),
                                !.logged = Append(@, path)])
            ELSE cleanupTempFiles(Tail(paths), failing,
                     [st EXCEPT !.files = @ \ {path},
                                !.outcome = Append(@, "deleted")])

----------------------------------------------------------------------------
(* The uploads a request may bring *)

Ch(m, s) == [mean |-> m, stdev |-> s]
Stats(c) == [ok |-> TRUE, channels |-> c]
StatsThrows == [ok |-> FALSE, channels |-> <<>>]

\* Image sides, around MAX_SIZE, at MIN_SIZE and at the extremes of the aspect ratio
Dims == {1, MIN_SIZE, 2000, 4096, 4097, 6000, 10000}
\* EXIF orientation tags; 0 is an absent tag
Tags == {0, 1, 3, 6, 8}
Formats == {"jpeg", "JPEG", "png"}
\* Channel statistics around the thresholds 80/180 (mean), 20/60 (stdev), 30 (noise)
ChannelSeqs ==
    {<<Ch(m, 30)>> : m \in {79, 80, 180, 181}}
    \cup {<<Ch(130, s)>> : s \in {19, 20, 31, 60, 61}}
    \cup {<<Ch(79, 19)>>, <<Ch(181, 61)>>,
          <<Ch(130, 20), Ch(90, 30), Ch(60, 41)>>,
          <<Ch(130, 61), Ch(130, 10), Ch(130, 10)>>,
          <<Ch(130, 30), Ch(130, 30), Ch(130, 30)>>}
StatsSet == {StatsThrows, Stats(<<>>)} \cup {Stats(c) : c \in ChannelSeqs}

Upload(ext, readable, w, h, format, tag, stats) ==
    [ext |-> ext, readable |-> readable, width |-> w, height |-> h,
     format |-> format, tag |-> tag, stats |-> stats]

NoUpload == Upload("", FALSE, 0, 0, "", 0, StatsThrows)

\* An upload whose extension passes multer's fileFilter but not isSupportedFormat,
\* one that sharp cannot decode, and the readable images
Uploads ==
    {Upload("apng", TRUE, 2000, 2000, "png", 0, Stats(<<Ch(130, 30)>>)),
     Upload("jpg", FALSE, 0, 0, "", 0, StatsThrows)}
    \cup {Upload("JPG", TRUE, w, h, f, t, s) :
            w \in Dims, h \in Dims, f \in Formats, t \in Tags, s \in StatsSet}

\* The uploads of the two runs that are compared with each other: the same
\* statistics with and without a rotation and a resize
PairUploads ==
    {Upload("jpg", TRUE, w, 2000, "jpeg", t, s) :
        w \in {2000, 6000}, t \in {0, 6},
        s \in {StatsThrows, Stats(<<Ch(130, 30)>>), Stats(<<Ch(79, 31)>>)}}

\* The uploads of the concurrent specification
ConcUploads ==
    {Upload("jpg", TRUE, 2000, 2000, "jpeg", 0, Stats(<<Ch(130, 30)>>)),
     Upload("jpg", TRUE, 6000, 2000, "png", 6, Stats(<<Ch(79, 31)>>))}

----------------------------------------------------------------------------
(* State *)

NoMetadata == [width |-> 0, height |-> 0, format |-> ""]
NoRotation == [angle |-> 0, via |-> "none", threw |-> <<>>]
NoPreprocessing ==
    [rotationApplied |-> 0, noiseReduction |-> FALSE, contrastEnhanced |-> FALSE,
     brightnessAdjusted |-> FALSE, sharpeningApplied |-> FALSE, resized |-> FALSE,
     formatConverted |-> FALSE]
NoPipeline == [width |-> 0, height |-> 0, ops |-> <<>>]
NoPaths == [processImage |-> Null, createThumbnail |-> Null]
NoResponse == [status |-> 0, code |-> "", thumbnail |-> Null, processed |-> Null]
NoAssessment ==
    [brightness |-> "", contrast |-> "", noise |-> "", sharpness |-> "", overall |-> ""]
NoQuality ==
    [brightness |-> 0, contrast |-> 0, noise |-> 0, sharpness |-> 0, score |-> 0,
     assessment |-> NoAssessment, analysed |-> FALSE, moved |-> ""]

NoSize == [width |-> 0, height |-> 0]
NoThumb == [called |-> FALSE, input |-> NoSize, size |-> 0, output |-> NoSize]

\* No call of cleanupTempFiles yet. A call records the list it was given, the
\* files on disk before and after, the paths whose unlinkSync throws, what
\* happened at each position of the list, what was logged, and whether the call
\* threw to its caller.
NoCleanup ==
    [called |-> FALSE, paths |-> <<>>, before |-> {}, failing |-> {}, files |-> {},
     outcome |-> <<>>, logged |-> <<>>, raised |-> FALSE]

\* The analyze route: what was sent, the name it was stored under, the answer of
\* ImageProcessor.getImageMetadata, the measures and the report of
\* performQualityAnalysis, the recommendations, the response, the cleanup timer
NoTemp == [owner |-> 0, image |-> NoUpload, pixels |-> <<>>]
NoAnalyzeMetadata == [width |-> 0, height |-> 0, format |-> "", orientation |-> 0]
NoMeasures ==
    [brightness |-> 0, contrast |-> 0, noise |-> 0, sharpness |-> 0, convolved |-> FALSE]
NoMeasure == [value |-> 0, assessment |-> ""]
NoReport ==
    [ok |-> FALSE, brightness |-> NoMeasure, contrast |-> NoMeasure, noise |-> NoMeasure,
     sharpness |-> NoMeasure, overall |-> [score |-> 0, assessment |-> ""]]
NoAnalysis ==
    [pc |-> "idle", upload |-> [image |-> NoUpload, pixels |-> <<>>], path |-> Null,
     metadata |-> NoAnalyzeMetadata, measures |-> NoMeasures, quality |-> NoReport,
     recommendations |-> <<>>, response |-> [status |-> 0, code |-> ""], timer |-> FALSE]

InitUpload ==
    /\ now = 0
    /\ pc = [r \in Reqs |-> "idle"]
    /\ upload = [r \in Reqs |-> NoUpload]
    /\ originals = {}
    /\ metadata = [r \in Reqs |-> NoMetadata]
    /\ rotation = [r \in Reqs |-> NoRotation]
    /\ preprocessing = [r \in Reqs |-> NoPreprocessing]
    /\ pipeline = [r \in Reqs |-> NoPipeline]
    /\ outputPath = [r \in Reqs |-> NoPaths]
    /\ processed = [t \in Times |-> NoFile]
    /\ written = [r \in Reqs |-> NoFile]
    /\ finalMetadata = [r \in Reqs |-> NoMetadata]
    /\ thumbnailPath = [r \in Reqs |-> Null]
    /\ thumbnails = [t \in Times |-> NoFile]
    /\ response = [r \in Reqs |-> NoResponse]
    /\ timers = {}

Init ==
    /\ InitUpload
    /\ quality = NoQuality
    /\ analysis = [r \in Reqs |-> NoAnalysis]
    /\ temp = [t \in Times |-> NoTemp]
    /\ thumb = NoThumb
    /\ cleanup = NoCleanup

----------------------------------------------------------------------------
(* router.post('/') of the upload route, with ImageProcessor.processImage and *)
(* ImageProcessor.createThumbnail inlined at their awaits                     *)

Goto(r, label) == pc' = [pc EXCEPT ![r] = label]

\* The stages with sharpening moved before the noise reduction
StageAfterSharpenFirst(stage) ==
    CASE stage = "detectRotation"      -> "rotate"
      [] stage = "rotate"              -> "resize"
      [] stage = "resize"              -> "sharpen"
      [] stage = "sharpen"             -> "detectNoise"
      [] stage = "detectNoise"         -> "analyzeImageQuality"
      [] stage = "analyzeImageQuality" -> "format"
      [] stage = "format"              -> "toFile"

\* The order of the stages in processImage: what follows each of them
StageAfter(stage) ==
    CASE stage = "detectRotation"      -> "rotate"
      [] stage = "rotate"              -> "resize"
      [] stage = "resize"              -> "detectNoise"
      [] stage = "detectNoise"         -> "analyzeImageQuality"
      [] stage = "analyzeImageQuality" -> "sharpen"
      [] stage = "sharpen"             -> "format"
      [] stage = "format"              -> "toFile"

Queue(p, op) == [p EXCEPT !.ops = Append(@, op)]

\* What the encoder queued by the format stage is set to:
\* toFormat(TARGET_FORMAT, {quality, progressive}) or jpeg({quality, progressive})
Encoder(op) ==
    CASE op = "toFormat" ->
             [format |-> TARGET_FORMAT, quality |-> TARGET_QUALITY, progressive |-> TRUE]
      [] op = "jpeg" ->
             [format |-> "jpeg", quality |-> TARGET_QUALITY, progressive |-> TRUE]

\* The last operation queued on a pipeline
Last(ops) == ops[Len(ops)]

\* The status the route answers when processImage throws
ProcessingErrorStatus == 500

\* The catch around processImage: unlink the upload, answer PROCESSING_ERROR
ProcessingFailed(r) ==
    /\ originals' = originals \ {r}
    /\ response' = [response EXCEPT ![r] =
            [status |-> ProcessingErrorStatus, code |-> "PROCESSING_ERROR",
             thumbnail |-> Null, processed |-> Null]]
    /\ Goto(r, "done")

\* multer stored the file of request r
Receive(r, U) ==
    /\ pc[r] = "idle"
    /\ \E f \in U : upload' = [upload EXCEPT ![r] = f]
    /\ originals' = originals \cup {r}
    /\ Goto(r, "handler")
    /\ UNCHANGED <<cleanup, quality, analysis, thumb, temp, now, metadata, rotation, preprocessing, pipeline, outputPath, processed,
                   written, finalMetadata, thumbnailPath, thumbnails, response, timers>>

\* the request carried no file: 400 NO_FILE
ReceiveNothing(r) ==
    /\ pc[r] = "idle"
    /\ response' = [response EXCEPT ![r] =
            [status |-> 400, code |-> "NO_FILE", thumbnail |-> Null, processed |-> Null]]
    /\ Goto(r, "done")
    /\ UNCHANGED <<cleanup, quality, analysis, thumb, temp, now, upload, originals, metadata, rotation, preprocessing, pipeline,
                   outputPath, processed, written, finalMetadata, thumbnailPath, thumbnails,
                   timers>>

\* The handler up to its first await: the format check, then processImage up to
\* `await this.getImageMetadata(inputPath)`
Validate(r) ==
    /\ pc[r] = "handler"
    /\ IF ~isSupportedFormat(upload[r].ext)
       THEN /\ originals' = originals \ {r}
            /\ response' = [response EXCEPT ![r] =
                    [status |-> 400, code |-> "UNSUPPORTED_FORMAT",
                     thumbnail |-> Null, processed |-> Null]]
            /\ Goto(r, "done")
            /\ UNCHANGED outputPath
       ELSE /\ outputPath' = [outputPath EXCEPT ![r].processImage = generateOutputPath(now)]
            /\ Goto(r, "getImageMetadata")
            /\ UNCHANGED <<originals, response>>
    /\ UNCHANGED <<cleanup, quality, analysis, thumb, temp, now, upload, metadata, rotation, preprocessing, pipeline, processed,
                   written, finalMetadata, thumbnailPath, thumbnails, timers>>

\* getImageMetadata that answers its defaults (`metadata.width || 0`) for a file it
\* cannot decode instead of throwing
GetImageMetadataDefaults(r) ==
    /\ pc[r] = "getImageMetadata"
    /\ metadata' = [metadata EXCEPT ![r] =
            [width |-> upload[r].width, height |-> upload[r].height,
             format |-> upload[r].format]]
    /\ preprocessing' = [preprocessing EXCEPT ![r] = NoPreprocessing]
    /\ pipeline' = [pipeline EXCEPT ![r] =
            [width |-> upload[r].width, height |-> upload[r].height, ops |-> <<>>]]
    /\ Goto(r, "detectRotation")
    /\ UNCHANGED <<cleanup, quality, analysis, thumb, temp, now, upload, originals, response, rotation, outputPath, processed,
                   written, finalMetadata, thumbnailPath, thumbnails, timers>>

\* getImageMetadata(inputPath) settles: it throws on an undecodable file, else
\* processImage goes on to `await this.detectRotation(inputPath)`
GetImageMetadata(r) ==
    /\ pc[r] = "getImageMetadata"
    /\ IF ~upload[r].readable
       THEN /\ ProcessingFailed(r)
            /\ UNCHANGED <<metadata, preprocessing, pipeline>>
       ELSE /\ metadata' = [metadata EXCEPT ![r] =
                    [width |-> upload[r].width, height |-> upload[r].height,
                     format |-> upload[r].format]]
            /\ preprocessing' = [preprocessing EXCEPT ![r] = NoPreprocessing]
            /\ pipeline' = [pipeline EXCEPT ![r] =
                    [width |-> upload[r].width, height |-> upload[r].height, ops |-> <<>>]]
            /\ Goto(r, "detectRotation")
            /\ UNCHANGED <<originals, response>>
    /\ UNCHANGED <<cleanup, quality, analysis, thumb, temp, now, upload, rotation, outputPath, processed, written, finalMetadata,
                   thumbnailPath, thumbnails, timers>>

\* detectRotation whose primary path hands over to the secondary one when it
\* finds no orientation tag or one it does not map
DetectRotationPrimaryFallsThrough(r) ==
    /\ pc[r] = "detectRotation"
    /\ \E throws \in BOOLEAN :
         IF throws
         THEN /\ Goto(r, "detectRotationJimp")
              /\ rotation' = [rotation EXCEPT ![r].threw = <<"primary">>]
         ELSE IF PrimaryAngle(upload[r].tag) = 0
         THEN /\ Goto(r, "detectRotationJimp")
              /\ UNCHANGED rotation
         ELSE /\ rotation' = [rotation EXCEPT ![r] =
                      [angle |-> PrimaryAngle(upload[r].tag), via |-> "primary",
                       threw |-> <<>>]]
              /\ Goto(r, StageAfter("detectRotation"))
    /\ UNCHANGED <<cleanup, quality, analysis, thumb, temp, now, upload, originals, metadata, preprocessing, pipeline, outputPath,
                   processed, written, finalMetadata, thumbnailPath, thumbnails, response,
                   timers>>

\* detectRotation, primary path: the EXIF parse returns an angle or throws
DetectRotationPrimary(r) ==
    /\ pc[r] = "detectRotation"
    /\ \E throws \in BOOLEAN :
         IF throws
         THEN /\ Goto(r, "detectRotationJimp")
              /\ rotation' = [rotation EXCEPT ![r].threw = <<"primary">>]
         ELSE /\ rotation' = [rotation EXCEPT ![r] =
                      [angle |-> PrimaryAngle(upload[r].tag), via |-> "primary",
                       threw |-> <<>>]]
              /\ Goto(r, StageAfter("detectRotation"))
    /\ UNCHANGED <<cleanup, quality, analysis, thumb, temp, now, upload, originals, metadata, preprocessing, pipeline, outputPath,
                   processed, written, finalMetadata, thumbnailPath, thumbnails, response,
                   timers>>

\* detectRotation, secondary path (inside the catch): Jimp reads the tag or throws
DetectRotationSecondary(r) ==
    /\ pc[r] = "detectRotationJimp"
    /\ \E throws \in BOOLEAN :
         rotation' = [rotation EXCEPT ![r] =
             IF throws
             THEN [angle |-> 0, via |-> "default",
                   threw |-> Append(rotation[r].threw, "secondary")]
             ELSE [angle |-> SecondaryAngle(upload[r].tag), via |-> "secondary",
                   threw |-> rotation[r].threw]]
    /\ Goto(r, StageAfter("detectRotation"))
    /\ UNCHANGED <<cleanup, quality, analysis, thumb, temp, now, upload, originals, metadata, preprocessing, pipeline, outputPath,
                   processed, written, finalMetadata, thumbnailPath, thumbnails, response,
                   timers>>

\* 1. Auto-rotate based on EXIF data
RotateStage(r) ==
    /\ pc[r] = "rotate"
    /\ IF rotation[r].angle # 0
       THEN /\ pipeline' = [pipeline EXCEPT ![r] =
                    Queue(Rotate(@, rotation[r].angle) @@ @, "rotate")]
            /\ preprocessing' = [preprocessing EXCEPT ![r].rotationApplied = rotation[r].angle]
       ELSE UNCHANGED <<pipeline, preprocessing>>
    /\ Goto(r, StageAfter("rotate"))
    /\ UNCHANGED <<cleanup, quality, analysis, thumb, temp, now, upload, originals, metadata, rotation, outputPath, processed, written,
                   finalMetadata, thumbnailPath, thumbnails, response, timers>>

\* 2. Resize if too large
ResizeStage(r) ==
    /\ pc[r] = "resize"
    /\ IF metadata[r].width > MAX_SIZE \/ metadata[r].height > MAX_SIZE
       THEN LET target == calculateTargetDimensions(metadata[r].width, metadata[r].height,
                                                    MAX_SIZE, MAX_SIZE)
            IN IF ResizeThrows(target.width, target.height)
               THEN /\ ProcessingFailed(r)
                    /\ UNCHANGED <<pipeline, preprocessing>>
               ELSE /\ pipeline' = [pipeline EXCEPT ![r] =
                            Queue(ResizeInside(@, target.width, target.height) @@ @, "resize")]
                    /\ preprocessing' = [preprocessing EXCEPT ![r].resized = TRUE]
                    /\ Goto(r, StageAfter("resize"))
                    /\ UNCHANGED <<originals, response>>
       ELSE /\ Goto(r, StageAfter("resize"))
            /\ UNCHANGED <<pipeline, preprocessing, originals, response>>
    /\ UNCHANGED <<cleanup, quality, analysis, thumb, temp, now, upload, metadata, rotation, outputPath, processed, written,
                   finalMetadata, thumbnailPath, thumbnails, timers>>

\* The noise decision taken on the image as transformed so far: a resize has
\* smoothed the noise away
NoiseStageReevaluated(r) ==
    /\ pc[r] = "detectNoise"
    /\ IF detectNoise(upload[r].stats) /\ ~preprocessing[r].resized
       THEN /\ pipeline' = [pipeline EXCEPT ![r] = Queue(@, "median")]
            /\ preprocessing' = [preprocessing EXCEPT ![r].noiseReduction = TRUE]
       ELSE UNCHANGED <<pipeline, preprocessing>>
    /\ Goto(r, StageAfter("detectNoise"))
    /\ UNCHANGED <<cleanup, quality, analysis, thumb, temp, now, upload, originals, metadata, rotation, outputPath, processed,
                   written, finalMetadata, thumbnailPath, thumbnails, response, timers>>

\* 3. Noise reduction for noisy images: `await this.detectNoise(inputPath)` settles
NoiseStage(r) ==
    /\ pc[r] = "detectNoise"
    /\ IF detectNoise(upload[r].stats)
       THEN /\ pipeline' = [pipeline EXCEPT ![r] = Queue(@, "median")]
            /\ preprocessing' = [preprocessing EXCEPT ![r].noiseReduction = TRUE]
       ELSE UNCHANGED <<pipeline, preprocessing>>
    /\ Goto(r, StageAfter("detectNoise"))
    /\ UNCHANGED <<cleanup, quality, analysis, thumb, temp, now, upload, originals, metadata, rotation, outputPath, processed, written,
                   finalMetadata, thumbnailPath, thumbnails, response, timers>>

\* The adjustment stage without analyzeImageQuality's catch: a statistics read
\* that throws fails processImage
AdjustStagePropagates(r) ==
    /\ pc[r] = "analyzeImageQuality"
    /\ IF ~upload[r].stats.ok
       THEN /\ ProcessingFailed(r)
            /\ UNCHANGED <<pipeline, preprocessing>>
       ELSE /\ LET adjustments == analyzeImageQuality(upload[r].stats)
               IN IF adjustments.contrast # 100 \/ adjustments.brightness # 100
                  THEN /\ pipeline' = [pipeline EXCEPT ![r] = Queue(@, "modulate")]
                       /\ preprocessing' = [preprocessing EXCEPT
                               ![r].contrastEnhanced = (adjustments.contrast # 100),
                               ![r].brightnessAdjusted = (adjustments.brightness # 100)]
                  ELSE UNCHANGED <<pipeline, preprocessing>>
            /\ Goto(r, StageAfter("analyzeImageQuality"))
            /\ UNCHANGED <<originals, response>>
    /\ UNCHANGED <<cleanup, quality, analysis, thumb, temp, now, upload, metadata, rotation, outputPath, processed, written,
                   finalMetadata, thumbnailPath, thumbnails, timers>>

\* 4. Contrast and brightness adjustment: `await this.analyzeImageQuality(inputPath)` settles
AdjustStage(r) ==
    /\ pc[r] = "analyzeImageQuality"
    /\ LET adjustments == analyzeImageQuality(upload[r].stats)
       IN IF adjustments.contrast # 100 \/ adjustments.brightness # 100
          THEN /\ pipeline' = [pipeline EXCEPT ![r] = Queue(@, "modulate")]
               /\ preprocessing' = [preprocessing EXCEPT
                       ![r].contrastEnhanced = (adjustments.contrast # 100),
                       ![r].brightnessAdjusted = (adjustments.brightness # 100)]
          ELSE UNCHANGED <<pipeline, preprocessing>>
    /\ Goto(r, StageAfter("analyzeImageQuality"))
    /\ UNCHANGED <<cleanup, quality, analysis, thumb, temp, now, upload, originals, metadata, rotation, outputPath, processed, written,
                   finalMetadata, thumbnailPath, thumbnails, response, timers>>

\* Sharpening that is skipped when the noise reduction fired
SharpenStageGated(r) ==
    /\ pc[r] = "sharpen"
    /\ IF preprocessing[r].noiseReduction
       THEN UNCHANGED <<pipeline, preprocessing>>
       ELSE /\ pipeline' = [pipeline EXCEPT ![r] = Queue(@, "sharpen")]
            /\ preprocessing' = [preprocessing EXCEPT ![r].sharpeningApplied = TRUE]
    /\ Goto(r, StageAfter("sharpen"))
    /\ UNCHANGED <<cleanup, quality, analysis, thumb, temp, now, upload, originals, metadata, rotation,
                   outputPath, processed, written, finalMetadata, thumbnailPath, thumbnails,
                   response, timers>>

\* 5. Apply sharpening for better detail
SharpenStage(r) ==
    /\ pc[r] = "sharpen"
    /\ pipeline' = [pipeline EXCEPT ![r] = Queue(@, "sharpen")]
    /\ preprocessing' = [preprocessing EXCEPT ![r].sharpeningApplied = TRUE]
    /\ Goto(r, StageAfter("sharpen"))
    /\ UNCHANGED <<cleanup, quality, analysis, thumb, temp, now, upload, originals, metadata, rotation, outputPath, processed, written,
                   finalMetadata, thumbnailPath, thumbnails, response, timers>>

\* The format stage comparing the source format as it is spelled
FormatStageCaseSensitive(r) ==
    /\ pc[r] = "format"
    /\ IF metadata[r].format # TARGET_FORMAT
       THEN /\ pipeline' = [pipeline EXCEPT ![r] = Queue(@, "toFormat")]
            /\ preprocessing' = [preprocessing EXCEPT ![r].formatConverted = TRUE]
       ELSE /\ pipeline' = [pipeline EXCEPT ![r] = Queue(@, "jpeg")]
            /\ UNCHANGED preprocessing
    /\ Goto(r, StageAfter("format"))
    /\ UNCHANGED <<cleanup, quality, analysis, thumb, temp, now, upload, originals, metadata, rotation,
                   outputPath, processed, written, finalMetadata, thumbnailPath, thumbnails,
                   response, timers>>

\* 6. Convert to target format if needed
FormatStage(r) ==
    /\ pc[r] = "format"
    /\ IF toLowerCase(metadata[r].format) # TARGET_FORMAT
       THEN /\ pipeline' = [pipeline EXCEPT ![r] = Queue(@, "toFormat")]
            /\ preprocessing' = [preprocessing EXCEPT ![r].formatConverted = TRUE]
       ELSE /\ pipeline' = [pipeline EXCEPT ![r] = Queue(@, "jpeg")]
            /\ UNCHANGED preprocessing
    /\ Goto(r, StageAfter("format"))
    /\ UNCHANGED <<cleanup, quality, analysis, thumb, temp, now, upload, originals, metadata, rotation, outputPath, processed, written,
                   finalMetadata, thumbnailPath, thumbnails, response, timers>>

\* `await pipeline.toFile(finalOutputPath)` settles: the raster operations run and
\* the file is written, or one of them fails and processImage throws
ToFile(r) ==
    /\ pc[r] = "toFile"
    /\ \E ok \in BOOLEAN :
         IF ok
         THEN LET f == [owner |-> r, width |-> pipeline[r].width,
                        height |-> pipeline[r].height,
                        format |-> Encoder(Last(pipeline[r].ops)).format,
                        ops |-> pipeline[r].ops, source |-> r]
              IN /\ processed' = [processed EXCEPT ![outputPath[r].processImage] = f]
                 /\ written' = [written EXCEPT ![r] = f]
                 /\ Goto(r, "finalMetadata")
                 /\ UNCHANGED <<originals, response>>
         ELSE /\ ProcessingFailed(r)
              /\ UNCHANGED <<processed, written>>
    /\ UNCHANGED <<cleanup, quality, analysis, thumb, temp, now, upload, metadata, rotation, preprocessing, pipeline, outputPath,
                   finalMetadata, thumbnailPath, thumbnails, timers>>

\* `await this.getImageMetadata(finalOutputPath)` settles and processImage returns;
\* the route goes on into createThumbnail up to its `await ... toFile(outputPath)`
FinalMetadata(r) ==
    /\ pc[r] = "finalMetadata"
    /\ LET f == processed[outputPath[r].processImage]
       IN finalMetadata' = [finalMetadata EXCEPT ![r] =
              [width |-> f.width, height |-> f.height, format |-> f.format]]
    /\ outputPath' = [outputPath EXCEPT ![r].createThumbnail = generateThumbnailPath(now)]
    /\ Goto(r, "createThumbnail")
    /\ UNCHANGED <<cleanup, quality, analysis, thumb, temp, now, upload, originals, metadata, rotation, preprocessing, pipeline,
                   processed, written, thumbnailPath, thumbnails, response, timers>>

\* createThumbnail without the route's try/catch around it: a failure reaches the
\* catch of the whole handler, which unlinks the upload and answers 500
CreateThumbnailPropagates(r) ==
    /\ pc[r] = "createThumbnail"
    /\ \E ok \in BOOLEAN :
         IF ok
         THEN /\ thumbnails' = [thumbnails EXCEPT ![outputPath[r].createThumbnail] =
                      [owner |-> r, width |-> THUMBNAIL_SIZE, height |-> THUMBNAIL_SIZE,
                       format |-> "jpeg", ops |-> <<"resize", "jpeg">>,
                       source |-> processed[outputPath[r].processImage].owner]]
              /\ thumbnailPath' = [thumbnailPath EXCEPT ![r] = outputPath[r].createThumbnail]
              /\ Goto(r, "respond")
              /\ UNCHANGED <<originals, response>>
         ELSE /\ originals' = originals \ {r}
              /\ response' = [response EXCEPT ![r] =
                      [status |-> 500, code |-> "INTERNAL_ERROR",
                       thumbnail |-> Null, processed |-> Null]]
              /\ Goto(r, "done")
              /\ UNCHANGED <<thumbnails, thumbnailPath>>
    /\ UNCHANGED <<cleanup, quality, analysis, thumb, temp, now, upload, metadata, rotation, preprocessing, pipeline,
                   outputPath, processed, written, finalMetadata, timers>>

\* createThumbnail settles: the thumbnail is written and its path returned, or it
\* throws and the route's catch leaves thumbnailPath null
CreateThumbnail(r) ==
    /\ pc[r] = "createThumbnail"
    /\ \E ok \in BOOLEAN :
         IF ok
         THEN LET input == processed[outputPath[r].processImage]
                  output == ResizeCover(input, THUMBNAIL_SIZE, THUMBNAIL_SIZE)
              IN /\ thumbnails' = [thumbnails EXCEPT ![outputPath[r].createThumbnail] =
                         [owner |-> r, width |-> output.width, height |-> output.height,
                          format |-> "jpeg", ops |-> <<"resize", "jpeg">>,
                          source |-> input.owner]]
                 /\ thumbnailPath' = [thumbnailPath EXCEPT ![r] =
                         outputPath[r].createThumbnail]
         ELSE UNCHANGED <<thumbnails, thumbnailPath>>
    /\ Goto(r, "respond")
    /\ UNCHANGED <<cleanup, quality, analysis, thumb, temp, now, upload, originals, metadata, rotation, preprocessing, pipeline,
                   outputPath, processed, written, finalMetadata, response, timers>>

\* The success path without its setTimeout: the response is sent and the upload
\* left where it is
RespondWithoutCleanup(r) ==
    /\ pc[r] = "respond"
    /\ response' = [response EXCEPT ![r] =
            [status |-> 200, code |-> "OK", thumbnail |-> thumbnailPath[r],
             processed |-> outputPath[r].processImage]]
    /\ Goto(r, "done")
    /\ UNCHANGED <<cleanup, quality, analysis, thumb, temp, now, upload, originals, metadata, rotation, preprocessing, pipeline,
                   outputPath, processed, written, finalMetadata, thumbnailPath, thumbnails,
                   timers>>

\* The response is built, the cleanup timer set and the response sent
Respond(r) ==
    /\ pc[r] = "respond"
    /\ response' = [response EXCEPT ![r] =
            [status |-> 200, code |-> "OK", thumbnail |-> thumbnailPath[r],
             processed |-> outputPath[r].processImage]]
    /\ timers' = timers \cup {r}
    /\ Goto(r, "done")
    /\ UNCHANGED <<cleanup, quality, analysis, thumb, temp, now, upload, originals, metadata, rotation, preprocessing, pipeline,
                   outputPath, processed, written, finalMetadata, thumbnailPath, thumbnails>>

\* The timer fires: cleanupTempFiles([file.path]) on the uploads on disk; the
\* unlink may throw, which cleanupTempFiles only logs
CleanupTimer(r) ==
    /\ r \in timers
    /\ timers' = timers \ {r}
    /\ \E failing \in SUBSET {r} :
         LET end == cleanupTempFiles(<<r>>, failing, CleanupStart(originals))
         IN /\ originals' = end.files
            /\ cleanup' = [called |-> TRUE, paths |-> <<r>>, before |-> originals,
                           failing |-> failing, files |-> end.files,
                           outcome |-> end.outcome, logged |-> end.logged,
                           raised |-> end.raised]
    /\ UNCHANGED <<quality, analysis, thumb, temp, now, pc, upload, metadata, rotation, preprocessing, pipeline, outputPath,
                   processed, written, finalMetadata, thumbnailPath, thumbnails, response>>

\* Time passes
Tick ==
    /\ now < MaxTime
    /\ now' = now + 1
    /\ UNCHANGED <<cleanup, quality, analysis, thumb, temp, pc, upload, originals, metadata, rotation, preprocessing, pipeline,
                   outputPath, processed, written, finalMetadata, thumbnailPath, thumbnails,
                   response, timers>>

\* One step of request r whose upload is drawn from U
Handle(r, U) ==
    \/ Receive(r, U)
    \/ ReceiveNothing(r)
    \/ Validate(r)
    \/ GetImageMetadata(r)
    \/ DetectRotationPrimary(r)
    \/ DetectRotationSecondary(r)
    \/ RotateStage(r)
    \/ ResizeStage(r)
    \/ NoiseStage(r)
    \/ AdjustStage(r)
    \/ SharpenStage(r)
    \/ FormatStage(r)
    \/ ToFile(r)
    \/ FinalMetadata(r)
    \/ CreateThumbnail(r)
    \/ Respond(r)
    \/ CleanupTimer(r)

\* One request at a time, over every upload
Next == Handle(1, Uploads)

Spec == Init /\ [][Next]_vars

\* Two runs side by side, to compare what they decide
Runs == {1, 2}

NextPair == \E r \in Runs : Handle(r, PairUploads)

SpecPair == Init /\ [][NextPair]_vars

\* Concurrent requests against the clock
NextConc ==
    \/ Tick
    \/ \E r \in Reqs : Handle(r, ConcUploads)

SpecConc == Init /\ [][NextConc]_vars

\* The outer catch of the handler: something between the end of processImage and
\* res.json threw, before or after the cleanup timer was set. The upload is
\* unlinked if it is still there and the request answered INTERNAL_ERROR.
UnexpectedError(r) ==
    /\ pc[r] = "respond"
    /\ \E timerSet \in BOOLEAN :
         timers' = IF timerSet THEN timers \cup {r} ELSE timers
    /\ originals' = originals \ {r}
    /\ response' = [response EXCEPT ![r] =
            [status |-> 500, code |-> "INTERNAL_ERROR", thumbnail |-> Null,
             processed |-> Null]]
    /\ Goto(r, "done")
    /\ UNCHANGED <<cleanup, quality, analysis, thumb, temp, now, upload, metadata, rotation, preprocessing, pipeline,
                   outputPath, processed, written, finalMetadata, thumbnailPath, thumbnails>>

\* One upload for each way out of the handler: an unsupported extension, an
\* undecodable file, a resize that throws, and images that go through
LiveUploads ==
    {Upload("apng", TRUE, 2000, 2000, "png", 0, Stats(<<Ch(130, 30)>>)),
     Upload("jpg", FALSE, 0, 0, "", 0, StatsThrows),
     Upload("jpg", TRUE, 10000, 1, "jpeg", 0, Stats(<<Ch(130, 30)>>)),
     Upload("jpg", TRUE, 2000, 2000, "jpeg", 0, Stats(<<Ch(130, 30)>>)),
     Upload("JPG", TRUE, 6000, 2000, "png", 6, Stats(<<Ch(79, 31)>>))}

\* One request to its end, the unexpected error included. Every continuation of
\* an await runs once its promise has settled and the timer set by setTimeout
\* fires: the steps of the handler are weakly fair. An unexpected error need not
\* happen.
NextLive ==
    \/ Handle(1, LiveUploads)
    \/ UnexpectedError(1)

SpecLive == Init /\ [][NextLive]_vars /\ WF_vars(Handle(1, LiveUploads))

----------------------------------------------------------------------------
(* The analyze route: the quality score *)

\* calculateQualityScore with the two sharpness penalties exchanged
calculateQualityScoreSwapped(brightness, contrast, noise, sharpness) ==
    LET score0 == 100
        score1 == IF brightness < 80 \/ brightness > 180 THEN score0 - 20 ELSE score0
        score2 == IF contrast < 20 THEN score1 - 25
                  ELSE IF contrast > 60 THEN score1 - 10 ELSE score1
        score3 == IF noise > 30 THEN score2 - 20
                  ELSE IF noise > 20 THEN score2 - 10 ELSE score2
        score4 == IF sharpness < 30 THEN score3 - 10
                  ELSE IF sharpness < 50 THEN score3 - 25 ELSE score3
    IN IF score4 < 0 THEN 0 ELSE IF score4 > 100 THEN 100 ELSE score4

\* calculateQualityScore
calculateQualityScore(brightness, contrast, noise, sharpness) ==
    LET score0 == 100
        score1 == IF brightness < 80 \/ brightness > 180 THEN score0 - 20 ELSE score0
        score2 == IF contrast < 20 THEN score1 - 25
                  ELSE IF contrast > 60 THEN score1 - 10 ELSE score1
        score3 == IF noise > 30 THEN score2 - 20
                  ELSE IF noise > 20 THEN score2 - 10 ELSE score2
        score4 == IF sharpness < 30 THEN score3 - 25
                  ELSE IF sharpness < 50 THEN score3 - 10 ELSE score3
    IN Max(0, Min(100, score4))

\* getBrightnessAssessment without its two "Slightly" bands: Good from 50 to 200
getBrightnessAssessmentWide(value) ==
    IF value < 50 THEN "Too dark"
    ELSE IF value > 200 THEN "Too bright"
    ELSE "Good"

\* getBrightnessAssessment
getBrightnessAssessment(value) ==
    IF value < 50 THEN "Too dark"
    ELSE IF value < 80 THEN "Slightly dark"
    ELSE IF value > 200 THEN "Too bright"
    ELSE IF value > 180 THEN "Slightly bright"
    ELSE "Good"

\* getContrastAssessment
getContrastAssessment(value) ==
    IF value < 15 THEN "Very low contrast"
    ELSE IF value < 25 THEN "Low contrast"
    ELSE IF value > 70 THEN "Very high contrast"
    ELSE IF value > 60 THEN "High contrast"
    ELSE "Good"

\* getNoiseAssessment whose comparisons include the thresholds themselves
getNoiseAssessmentInclusive(value) ==
    IF value >= 40 THEN "Very noisy"
    ELSE IF value >= 25 THEN "Noisy"
    ELSE IF value >= 15 THEN "Slightly noisy"
    ELSE "Low noise"

\* getNoiseAssessment
getNoiseAssessment(value) ==
    IF value > 40 THEN "Very noisy"
    ELSE IF value > 25 THEN "Noisy"
    ELSE IF value > 15 THEN "Slightly noisy"
    ELSE "Low noise"

\* getSharpnessAssessment
getSharpnessAssessment(value) ==
    IF value < 20 THEN "Very blurry"
    ELSE IF value < 35 THEN "Blurry"
    ELSE IF value < 50 THEN "Slightly soft"
    ELSE "Sharp"

\* getOverallAssessment whose bands begin above their thresholds
getOverallAssessmentStrict(score) ==
    IF score > 85 THEN "Excellent"
    ELSE IF score > 70 THEN "Good"
    ELSE IF score > 55 THEN "Fair"
    ELSE IF score > 40 THEN "Poor"
    ELSE "Very Poor"

\* getOverallAssessment
getOverallAssessment(score) ==
    IF score >= 85 THEN "Excellent"
    ELSE IF score >= 70 THEN "Good"
    ELSE IF score >= 55 THEN "Fair"
    ELSE IF score >= 40 THEN "Poor"
    ELSE "Very Poor"

\* The `ideal` ranges performQualityAnalysis reports
Ideal ==
    [brightness |-> <<80, 180>>, contrast |-> <<20, 60>>,
     noise |-> <<0, 20>>, sharpness |-> <<50, 100>>]

Dimensions == {"brightness", "contrast", "noise", "sharpness"}

\* Measured values around every threshold of the score and of the bands
Measured ==
    [brightness |-> {0, 49, 50, 79, 80, 130, 180, 181, 200, 201, 255},
     contrast   |-> {0, 14, 15, 19, 20, 24, 25, 40, 60, 61, 70, 71, 100},
     noise      |-> {0, 15, 16, 20, 21, 25, 26, 30, 31, 40, 41, 60},
     sharpness  |-> {0, 19, 20, 29, 30, 34, 35, 49, 50, 100, 101, 150}]

\* v is at least as far from the ideal range of dimension d as u is, on u's side of it
Further(d, u, v) ==
    LET lo == Ideal[d][1]
        hi == Ideal[d][2]
    IN \/ u < lo /\ v <= u
       \/ u > hi /\ v >= u
       \/ u >= lo /\ u <= hi

\* The score and the assessments performQualityAnalysis reports for its measures
Scored(q) ==
    LET qualityScore == calculateQualityScore(q.brightness, q.contrast, q.noise, q.sharpness)
    IN [q EXCEPT !.score = qualityScore,
                 !.assessment =
                     [brightness |-> getBrightnessAssessment(q.brightness),
                      contrast   |-> getContrastAssessment(q.contrast),
                      noise      |-> getNoiseAssessment(q.noise),
                      sharpness  |-> getSharpnessAssessment(q.sharpness),
                      overall    |-> getOverallAssessment(qualityScore)]]

\* performQualityAnalysis measures an image and scores it
PerformQualityAnalysis ==
    /\ ~quality.analysed
    /\ \E b \in Measured.brightness, c \in Measured.contrast,
          n \in Measured.noise, s \in Measured.sharpness :
         quality' = Scored([brightness |-> b, contrast |-> c, noise |-> n, sharpness |-> s,
                            score |-> 0, assessment |-> NoAssessment,
                            analysed |-> TRUE, moved |-> ""])
    /\ UNCHANGED <<uploadVars, cleanup, analysis, thumb, temp>>

\* The next image analysed differs from the last one in one dimension only, whose
\* value lies further from its ideal range
AnalyseFurther ==
    /\ quality.analysed
    /\ \E d \in Dimensions : \E v \in Measured[d] :
         /\ v # quality[d]
         /\ Further(d, quality[d], v)
         /\ quality' = Scored([[quality EXCEPT ![d] = v] EXCEPT !.moved = d])
    /\ UNCHANGED <<uploadVars, cleanup, analysis, thumb, temp>>

NextScore == PerformQualityAnalysis \/ AnalyseFurther

SpecScore == Init /\ [][NextScore]_vars

----------------------------------------------------------------------------
(* The analyze route: router.post('/') with performQualityAnalysis and *)
(* getPreprocessingRecommendations                                      *)

\* Math.floor(Math.sqrt(n)) for n >= 0, sought between lo and hi
RECURSIVE SqrtBetween(_, _, _)
SqrtBetween(n, lo, hi) ==
    IF lo >= hi THEN lo
    ELSE LET mid == (lo + hi + 1) \div 2
         IN IF mid * mid <= n THEN SqrtBetween(n, mid, hi) ELSE SqrtBetween(n, lo, mid - 1)

\* (46340 is the largest root whose square the checker's integers hold)
Sqrt(n) == SqrtBetween(n, 0, Min(n, 46340))

\* A raster is a sequence of rows of samples in 0..255.  The sample at (y, x);
\* outside the raster it is the nearest sample of the raster.
Sample(pixels, y, x) ==
    pixels[Max(1, Min(Len(pixels), y))][Max(1, Min(Len(pixels[1]), x))]

\* A sample of the output raster: a value of the raw 8-bit buffer
Clip(v) == Max(0, Min(255, v))

\* The kernel of estimateSharpness whose centre weight has taken the sign of the others
LaplacianNegativeCentre(pixels, y, x) ==
    0 - 4 * Sample(pixels, y, x)
    - Sample(pixels, y - 1, x) - Sample(pixels, y + 1, x)
    - Sample(pixels, y, x - 1) - Sample(pixels, y, x + 1)

\* The response of the kernel [0,-1,0,-1,4,-1,0,-1,0] at (y, x)
Laplacian(pixels, y, x) ==
    4 * Sample(pixels, y, x)
    - Sample(pixels, y - 1, x) - Sample(pixels, y + 1, x)
    - Sample(pixels, y, x - 1) - Sample(pixels, y, x + 1)

\* sharp(imagePath).convolve({...}).raw().toBuffer(): the buffer, row after row
Convolve(pixels) ==
    LET w == Len(pixels[1])
    IN [i \in 1..(Len(pixels) * w) |->
            Clip(Laplacian(pixels, ((i - 1) \div w) + 1, ((i - 1) % w) + 1))]

\* The loop of estimateSharpness: the sum of edges[i] * edges[i]
RECURSIVE SumSquares(_)
SumSquares(edges) ==
    IF edges = <<>> THEN 0
    ELSE Head(edges) * Head(edges) + SumSquares(Tail(edges))

\* estimateSharpness, in tenths: Math.sqrt(sum / edges.length), or 0 after a throw
estimateSharpness(pixels, throws) ==
    IF throws THEN 0
    ELSE LET edges == Convolve(pixels)
         IN Sqrt((100 * SumSquares(edges)) \div Len(edges))

\* estimateNoise: totalNoise / channels.length, as the least integer not below
\* it (the comparisons made on it are all `> k` for an integer k, which that
\* integer answers as the quotient does); 0 without channels or after a throw
estimateNoise(stats) ==
    IF ~stats.ok THEN 0
    ELSE IF Len(stats.channels) = 0 THEN 0
    ELSE (SumStdev(stats.channels) + Len(stats.channels) - 1) \div Len(stats.channels)

\* The sharpness the comparisons are made on, in whole units: they are all `< k`
\* for an integer k, which the whole part answers as the value does
Whole(tenths) == tenths \div 10

\* The object performQualityAnalysis returns for its measures m
Report(m) ==
    LET qualityScore ==
            calculateQualityScore(m.brightness, m.contrast, m.noise, Whole(m.sharpness))
    IN [ok |-> TRUE,
        brightness |-> [value |-> m.brightness,
                        assessment |-> getBrightnessAssessment(m.brightness)],
        contrast |-> [value |-> m.contrast,
                      assessment |-> getContrastAssessment(m.contrast)],
        noise |-> [value |-> m.noise, assessment |-> getNoiseAssessment(m.noise)],
        sharpness |-> [value |-> Round(m.sharpness, 10),
                       assessment |-> getSharpnessAssessment(Whole(m.sharpness))],
        overall |-> [score |-> qualityScore,
                     assessment |-> getOverallAssessment(qualityScore)]]

\* getPreprocessingRecommendations that returns at the first rule that fires
getPreprocessingRecommendationsFirstOnly(meta, report) ==
    IF meta.width > 4096 \/ meta.height > 4096
    THEN <<"Consider resizing for faster processing">>
    ELSE IF toLowerCase(meta.format) \notin {"jpeg", "jpg", "png"}
    THEN <<"Convert to JPEG or PNG for better compatibility">>
    ELSE IF report.brightness.assessment # "Good"
    THEN <<"Brightness adjustment recommended">>
    ELSE IF report.contrast.assessment # "Good"
    THEN <<"Contrast enhancement recommended">>
    ELSE IF report.noise.assessment # "Low noise"
    THEN <<"Noise reduction recommended">>
    ELSE IF report.sharpness.assessment # "Sharp"
    THEN <<"Sharpening recommended">>
    ELSE IF meta.orientation # 0 /\ meta.orientation # 1
    THEN <<"Auto-rotation needed">>
    ELSE <<>>

\* getPreprocessingRecommendations; orientation 0 is an absent tag (undefined)
getPreprocessingRecommendations(meta, report) ==
    LET Push(recommendations, condition, text) ==
            IF condition THEN Append(recommendations, text) ELSE recommendations
        r1 == Push(<<>>, meta.width > 4096 \/ meta.height > 4096,
                   "Consider resizing for faster processing")
        r2 == Push(r1, toLowerCase(meta.format) \notin {"jpeg", "jpg", "png"},
                   "Convert to JPEG or PNG for better compatibility")
        r3 == Push(r2, report.brightness.assessment # "Good",
                   "Brightness adjustment recommended")
        r4 == Push(r3, report.contrast.assessment # "Good",
                   "Contrast enhancement recommended")
        r5 == Push(r4, report.noise.assessment # "Low noise",
                   "Noise reduction recommended")
        r6 == Push(r5, report.sharpness.assessment # "Sharp",
                   "Sharpening recommended")
        r7 == Push(r6, meta.orientation # 0 /\ meta.orientation # 1,
                   "Auto-rotation needed")
    IN r7

\* Rasters: flat ones, and ones with an edge of every strength
Rasters ==
    {<<<<0>>>>,
     <<<<128, 128>>, <<128, 128>>>>,
     <<<<255, 255, 255>>, <<255, 255, 255>>, <<255, 255, 255>>>>,
     <<<<100, 101>>>>,
     <<<<100, 130>>>>,
     <<<<100, 160>>>>,
     <<<<0, 255>>>>,
     <<<<50>>, <<200>>>>,
     <<<<0, 0>>, <<255, 255>>>>,
     <<<<10, 10, 10>>, <<10, 200, 10>>, <<10, 10, 10>>>>}

\* Statistics by what the report will say of them: the first channel's mean
\* (bright enough or dark), its stdev and the average stdev (contrast, noise)
AnalyzeStats ==
    {StatsThrows, Stats(<<>>)}
    \cup {Stats(c) : c \in UNION {
            {<<Ch(m, 30), Ch(m, 5), Ch(m, 5)>>, <<Ch(m, 30)>>, <<Ch(m, 10)>>, <<Ch(m, 80)>>}
            : m \in {130, 40}}}

\* What a client may send to the analyze route: the image sharp will describe
\* (size, format, orientation tag, statistics) and its raster at a reduced scale
AnalyzeUploads ==
    {[image |-> Upload("jpg", FALSE, 0, 0, "", 0, StatsThrows), pixels |-> <<<<0>>>>]}
    \cup {[image |-> Upload("jpg", TRUE, d[1], d[2], f, t, st), pixels |-> px] :
            d \in {<<2000, 2000>>, <<4097, 2000>>, <<2000, 4097>>},
            f \in {"jpeg", "JPEG", "png", "webp"},
            t \in {0, 1, 2, 6},
            st \in AnalyzeStats,
            px \in Rasters}

\* The catch of the handler, a being the request as it stands: unlink the file
\* if it exists, answer ANALYSIS_ERROR
AnalysisFailed(r, a) ==
    /\ temp' = [temp EXCEPT ![a.path] = NoTemp]
    /\ analysis' = [analysis EXCEPT ![r] =
            [a EXCEPT !.pc = "done",
                      !.response = [status |-> 500, code |-> "ANALYSIS_ERROR"]]]

\* performQualityAnalysis returns the report of the measures m; the handler
\* computes the recommendations, sets the cleanup timer and answers
AnalysisAnswered(r, m) ==
    LET report == Report(m)
    IN /\ analysis' = [analysis EXCEPT ![r] =
               [@ EXCEPT !.pc = "done",
                         !.measures = m,
                         !.quality = report,
                         !.recommendations =
                             getPreprocessingRecommendations(analysis[r].metadata, report),
                         !.timer = TRUE,
                         !.response = [status |-> 200, code |-> "OK"]]]
       /\ UNCHANGED temp

\* multer stored the file of analyze request r under analyze-<Date.now()>
AnalyzeReceive(r, U) ==
    /\ analysis[r].pc = "idle"
    /\ \E f \in U :
         /\ analysis' = [analysis EXCEPT ![r] =
                [@ EXCEPT !.pc = "getImageMetadata", !.upload = f, !.path = now]]
         /\ temp' = [temp EXCEPT ![now] = [owner |-> r, image |-> f.image, pixels |-> f.pixels]]
    /\ UNCHANGED <<uploadVars, cleanup, quality, thumb>>

\* the request carried no file: 400 NO_FILE
AnalyzeReceiveNothing(r) ==
    /\ analysis[r].pc = "idle"
    /\ analysis' = [analysis EXCEPT ![r] =
            [@ EXCEPT !.pc = "done", !.response = [status |-> 400, code |-> "NO_FILE"]]]
    /\ UNCHANGED <<uploadVars, cleanup, quality, thumb, temp>>

\* `await ImageProcessor.getImageMetadata(file.path)` settles, and the handler
\* goes on into performQualityAnalysis up to its `await ... stats()`
AnalyzeGetImageMetadata(r) ==
    /\ analysis[r].pc = "getImageMetadata"
    /\ LET file == temp[analysis[r].path]
       IN IF file = NoTemp \/ ~file.image.readable
          THEN AnalysisFailed(r, analysis[r])
          ELSE /\ analysis' = [analysis EXCEPT ![r] =
                      [@ EXCEPT !.pc = "stats",
                                !.metadata = [width |-> file.image.width,
                                              height |-> file.image.height,
                                              format |-> file.image.format,
                                              orientation |-> file.image.tag]]]
               /\ UNCHANGED temp
    /\ UNCHANGED <<uploadVars, cleanup, quality, thumb>>

\* `await sharp(imagePath).raw().stats()` of performQualityAnalysis settles.  A
\* throw makes it return its error object, on which getPreprocessingRecommendations
\* throws (quality.brightness is undefined); without channels every measure is 0
\* and the request is answered; else brightness and contrast are those of the
\* first channel, and estimateNoise is awaited.
AnalyzeStatsRead(r) ==
    /\ analysis[r].pc = "stats"
    /\ LET file == temp[analysis[r].path]
       IN IF file = NoTemp \/ ~file.image.stats.ok
          THEN AnalysisFailed(r, analysis[r])
          ELSE IF Len(file.image.stats.channels) = 0
          THEN AnalysisAnswered(r, NoMeasures)
          ELSE /\ analysis' = [analysis EXCEPT ![r] =
                      [@ EXCEPT !.pc = "estimateNoise",
                                !.measures =
                                    [NoMeasures EXCEPT
                                        !.brightness = file.image.stats.channels[1].mean,
                                        !.contrast = file.image.stats.channels[1].stdev]]]
               /\ UNCHANGED temp
    /\ UNCHANGED <<uploadVars, cleanup, quality, thumb>>

\* `await estimateNoise(imagePath)` settles
AnalyzeEstimateNoise(r) ==
    /\ analysis[r].pc = "estimateNoise"
    /\ LET file == temp[analysis[r].path]
       IN analysis' = [analysis EXCEPT ![r] =
              [@ EXCEPT !.pc = "estimateSharpness",
                        !.measures.noise = estimateNoise(file.image.stats)]]
    /\ UNCHANGED <<uploadVars, cleanup, quality, thumb, temp>>

\* `await estimateSharpness(imagePath)` settles: the raster was convolved, or
\* sharp threw and the estimate is 0; the report is built and the request answered
AnalyzeEstimateSharpness(r) ==
    /\ analysis[r].pc = "estimateSharpness"
    /\ LET file == temp[analysis[r].path]
       IN \E throws \in BOOLEAN :
            /\ file = NoTemp => throws
            /\ AnalysisAnswered(r,
                   [analysis[r].measures EXCEPT
                       !.sharpness = estimateSharpness(file.pixels, throws),
                       !.convolved = ~throws])
    /\ UNCHANGED <<uploadVars, cleanup, quality, thumb>>

\* The timer fires: cleanupTempFiles([file.path]); a failed unlink is only logged
AnalyzeCleanupTimer(r) ==
    /\ analysis[r].timer
    /\ analysis' = [analysis EXCEPT ![r].timer = FALSE]
    /\ \E unlinkThrows \in BOOLEAN :
         temp' = IF unlinkThrows THEN temp ELSE [temp EXCEPT ![analysis[r].path] = NoTemp]
    /\ UNCHANGED <<uploadVars, cleanup, quality, thumb>>

\* One step of analyze request r whose upload is drawn from U
Analyze(r, U) ==
    \/ AnalyzeReceive(r, U)
    \/ AnalyzeReceiveNothing(r)
    \/ AnalyzeGetImageMetadata(r)
    \/ AnalyzeStatsRead(r)
    \/ AnalyzeEstimateNoise(r)
    \/ AnalyzeEstimateSharpness(r)
    \/ AnalyzeCleanupTimer(r)

\* One analyze request, over every upload
NextAnalyze == Analyze(1, AnalyzeUploads)

SpecAnalyze == Init /\ [][NextAnalyze]_vars

\* Images sent to both routes: every size and orientation tag on ordinary
\* statistics, and statistics on either side of every threshold of the pipeline
\* and of the report, unavailable ones included
BothImages ==
    {Upload("jpg", TRUE, d[1], d[2], "jpeg", t, Stats(<<Ch(130, 30)>>)) :
        d \in {<<2000, 2000>>, <<6000, 2000>>, <<2000, 4097>>}, t \in {0, 1, 3, 6, 8}}
    \cup {Upload("jpg", TRUE, 6000, 2000, "jpeg", 6, StatsThrows)}
    \cup {Upload("jpg", TRUE, 2000, 2000, "jpeg", 0, st) :
            st \in {StatsThrows, Stats(<<>>)}
                   \cup {Stats(<<Ch(m, 30)>>) : m \in {79, 80, 180, 181}}
                   \cup {Stats(<<Ch(130, sd)>>) : sd \in {15, 16, 19, 20, 24, 25, 31, 60, 61}}
                   \cup {Stats(<<Ch(130, 30), Ch(130, 31)>>),
                         Stats(<<Ch(130, 61), Ch(130, 0), Ch(130, 0)>>),
                         Stats(<<Ch(130, 10), Ch(130, 40), Ch(130, 41)>>)}}

\* The same images as the analyze route receives them, with a flat raster
BothAnalyzeUploads == {[image |-> u, pixels |-> <<<<128, 128>>, <<128, 128>>>>] : u \in BothImages}

\* One request to each route
NextBoth ==
    \/ Handle(1, BothImages)
    \/ Analyze(1, BothAnalyzeUploads)

SpecBoth == Init /\ [][NextBoth]_vars

\* The uploads of the concurrent analyze requests: an image and an undecodable file
ConcAnalyzeUploads ==
    {[image |-> Upload("jpg", TRUE, 2000, 2000, "jpeg", 0, Stats(<<Ch(130, 30)>>)),
      pixels |-> <<<<100, 160>>>>],
     [image |-> Upload("jpg", FALSE, 0, 0, "", 0, StatsThrows), pixels |-> <<<<0>>>>]}

\* Concurrent analyze requests against the clock
NextAnalyzeConc ==
    \/ Tick
    \/ \E r \in Reqs : Analyze(r, ConcAnalyzeUploads)

SpecAnalyzeConc == Init /\ [][NextAnalyzeConc]_vars

----------------------------------------------------------------------------
(* ImageProcessor.createThumbnail called with a size *)

\* Sizes a caller may request, the default among them
Sizes == {1, 64, THUMBNAIL_SIZE, 151, 5000}
\* Sides of the images thumbnails are made of
ThumbDims == {1, 2, 149, 150, 151, 4096}

\* createThumbnail(inputPath, size) on an image of w x h
CreateThumbnailCall ==
    \E w \in ThumbDims, h \in ThumbDims, size \in Sizes :
        /\ thumb' = [called |-> TRUE, input |-> [width |-> w, height |-> h], size |-> size,
                     output |-> ResizeCover([width |-> w, height |-> h], size, size)]
        /\ UNCHANGED <<uploadVars, cleanup, quality, analysis, temp>>

NextThumb == CreateThumbnailCall

SpecThumb == Init /\ [][NextThumb]_vars

----------------------------------------------------------------------------
(* ImageProcessor.cleanupTempFiles(paths), called on its own                  *)

\* The longest list of paths handed to cleanupTempFiles
MaxPaths == 3
\* The paths a caller may name
Paths == {"upload-a", "upload-b", "upload-c"}

\* The lists of at most MaxPaths paths; a path may be named twice
PathLists == UNION {[1..n -> Paths] : n \in 0..MaxPaths}

\* The call of cleanupTempFiles(paths), with some files on disk, the deletion of
\* some of them failing (a file that cannot be deleted stays on disk)
CleanupCall ==
    \E paths \in PathLists, files \in SUBSET Paths, failing \in SUBSET Paths :
        /\ ~cleanup.called
        /\ LET end == cleanupTempFiles(paths, failing, CleanupStart(files))
           IN cleanup' = [called |-> TRUE, paths |-> paths, before |-> files,
                          failing |-> failing, files |-> end.files,
                          outcome |-> end.outcome, logged |-> end.logged,
                          raised |-> end.raised]
        /\ UNCHANGED <<uploadVars, quality, analysis, temp, thumb>>

NextCleanup == CleanupCall

SpecCleanup == Init /\ [][NextCleanup]_vars

----------------------------------------------------------------------------
(* Properties *)

Range(s) == {s[i] : i \in 1..Len(s)}

\* processImage of request r has returned its result
Succeeded(r) == finalMetadata[r] # NoMetadata

\* C1: the file processImage writes is at most 4096 on both sides, and neither
\* side exceeds the same side of the source image as rotated.
C1_OutputWithinBounds ==
    \A r \in Reqs :
        written[r] # NoFile =>
            LET quarter == preprocessing[r].rotationApplied \in {90, 270}
                sourceWidth == IF quarter THEN metadata[r].height ELSE metadata[r].width
                sourceHeight == IF quarter THEN metadata[r].width ELSE metadata[r].height
            IN /\ written[r].width <= 4096
               /\ written[r].height <= 4096
               /\ written[r].width <= sourceWidth
               /\ written[r].height <= sourceHeight

\* A 10000 x 4097 image, turned by 90 degrees and resized, has been written
C1_Witness ==
    /\ written[1] # NoFile
    /\ preprocessing[1].resized
    /\ preprocessing[1].rotationApplied = 90
    /\ metadata[1].width = 10000
    /\ metadata[1].height = 4097

StageRank(op) ==
    CASE op = "rotate"   -> 1
      [] op = "resize"   -> 2
      [] op = "median"   -> 3
      [] op = "modulate" -> 4
      [] op = "sharpen"  -> 5
      [] op = "toFormat" -> 6
      [] op = "jpeg"     -> 6

\* C2: the stages are applied in the order rotate, resize, denoise,
\* brightness/contrast, sharpen, format-encode, each at most once, and the file
\* that is written holds all the stages that fired, sharpening and the encoding
\* among them.
C2_StagesInOrder ==
    \A r \in Reqs :
        LET ops == pipeline[r].ops
        IN /\ \A i, j \in 1..Len(ops) : i < j => StageRank(ops[i]) < StageRank(ops[j])
           /\ written[r] # NoFile =>
                /\ written[r].ops = ops
                /\ "sharpen" \in Range(ops)
                /\ Range(ops) \cap {"toFormat", "jpeg"} # {}
                /\ preprocessing[r].rotationApplied # 0 => "rotate" \in Range(ops)
                /\ preprocessing[r].resized => "resize" \in Range(ops)
                /\ preprocessing[r].noiseReduction => "median" \in Range(ops)
                /\ (preprocessing[r].contrastEnhanced \/ preprocessing[r].brightnessAdjusted)
                       => "modulate" \in Range(ops)

\* A file has been written on which all six stages fired
C2_Witness ==
    /\ written[1] # NoFile
    /\ written[1].ops = <<"rotate", "resize", "median", "modulate", "sharpen", "toFormat">>

\* Run r has taken its noise and its brightness/contrast decisions
Decided(r) == "sharpen" \in Range(pipeline[r].ops)

\* C3: two runs whose inputs have the same channel statistics take the same
\* noiseReduction, contrastEnhanced and brightnessAdjusted decisions, whatever
\* rotation and resize each of them applied.
C3_DecisionsFromOriginalStats ==
    \A r1, r2 \in Runs :
        (Decided(r1) /\ Decided(r2) /\ upload[r1].stats = upload[r2].stats) =>
            /\ preprocessing[r1].noiseReduction = preprocessing[r2].noiseReduction
            /\ preprocessing[r1].contrastEnhanced = preprocessing[r2].contrastEnhanced
            /\ preprocessing[r1].brightnessAdjusted = preprocessing[r2].brightnessAdjusted

\* Two runs on the same statistics, one rotated and resized, the other neither,
\* have both decided to denoise
C3_Witness ==
    /\ Decided(1) /\ Decided(2)
    /\ upload[1].stats = upload[2].stats
    /\ preprocessing[1].resized /\ preprocessing[1].rotationApplied # 0
    /\ ~preprocessing[2].resized /\ preprocessing[2].rotationApplied = 0
    /\ preprocessing[1].noiseReduction /\ preprocessing[2].noiseReduction

\* C4: the score is in [0,100], and it does not rise when one dimension's value
\* moves further from its ideal range while the other three stay as they are.
C4_ScoreBoundedMonotone ==
    /\ [](quality.analysed => quality.score \in 0..100)
    /\ [][quality.analysed => quality'.score <= quality.score]_vars

\* The contrast has moved up to 100, out of its ideal range, and the score fell
C4_Witness ==
    /\ quality.analysed
    /\ quality.moved = "contrast"
    /\ quality.contrast = 100
    /\ quality.score < 100

TagAngle(tag) ==
    CASE tag = 3 -> 180
      [] tag = 6 -> 90
      [] tag = 8 -> 270
      [] OTHER -> 0

\* C5: the resolved angle is one of 0, 90, 180, 270; on the primary and on the
\* secondary path it is the angle of the orientation tag (3: 180, 6: 90, 8: 270,
\* anything else or no tag: 0), and the rotation applied is that angle.
C5_RotationFromTag ==
    \A r \in Reqs :
        /\ rotation[r].angle \in {0, 90, 180, 270}
        /\ rotation[r].via \in {"primary", "secondary"} =>
               rotation[r].angle = TagAngle(upload[r].tag)
        /\ rotation[r].via \in {"none", "default"} => rotation[r].angle = 0
        /\ preprocessing[r].rotationApplied \in {0, rotation[r].angle}

\* The secondary path has resolved tag 8 to 270 degrees
C5_Witness ==
    /\ rotation[1].via = "secondary"
    /\ upload[1].tag = 8
    /\ rotation[1].angle = 270

\* C6: a request whose processImage succeeded and whose thumbnail failed ends
\* with status 200, a null thumbnail and the processed file as it was written.
C6_ThumbnailFailureAbsorbed ==
    \A r \in Reqs :
        (pc[r] = "done" /\ Succeeded(r) /\ thumbnailPath[r] = Null) =>
            /\ response[r].status = 200
            /\ response[r].thumbnail = Null
            /\ response[r].processed = outputPath[r].processImage
            /\ written[r] # NoFile
            /\ processed[outputPath[r].processImage] = written[r]

\* A request has ended that way
C6_Witness ==
    /\ pc[1] = "done"
    /\ Succeeded(1)
    /\ thumbnailPath[1] = Null
    /\ response[1].status = 200

\* The upload of request r went into processImage and cannot be decoded
Unreadable(r) ==
    /\ upload[r] # NoUpload
    /\ isSupportedFormat(upload[r].ext)
    /\ ~upload[r].readable

\* C7: when the metadata of the input cannot be read, processImage throws (the
\* route answers PROCESSING_ERROR) before any stage runs, and writes no file.
C7_UnreadableWritesNothing ==
    \A r \in Reqs :
        Unreadable(r) =>
            /\ pc[r] \in {"handler", "getImageMetadata", "done"}
            /\ written[r] = NoFile
            /\ pipeline[r] = NoPipeline
            /\ \A t \in Times : processed[t].owner # r
            /\ pc[r] = "done" => response[r].code = "PROCESSING_ERROR"

\* An undecodable upload has been answered
C7_Witness ==
    /\ Unreadable(1)
    /\ pc[1] = "done"
    /\ response[1].code = "PROCESSING_ERROR"

\* C8: an unreadable image is answered with a 4xx status, a failed raster
\* operation with a 5xx status.
C8_FailuresDistinct ==
    \A r \in Reqs :
        pc[r] = "done" =>
            /\ Unreadable(r) => response[r].status \in 400..499
            /\ (upload[r].readable /\ response[r].code = "PROCESSING_ERROR")
                   => response[r].status \in 500..599

\* processImage / createThumbnail of request r is between its start and its end
InProcessImage(r) ==
    pc[r] \in {"getImageMetadata", "detectRotation", "detectRotationJimp", "rotate", "resize",
               "detectNoise", "analyzeImageQuality", "sharpen", "format", "toFile",
               "finalMetadata"}
InCreateThumbnail(r) == pc[r] = "createThumbnail"

\* C9: two processImage calls in flight, and two createThumbnail calls in flight,
\* have distinct output paths, and the file a request reads back is its own.
C9_DistinctOutputPaths ==
    \A r1, r2 \in Reqs :
        r1 # r2 =>
            /\ (InProcessImage(r1) /\ InProcessImage(r2))
                   => outputPath[r1].processImage # outputPath[r2].processImage
            /\ (InCreateThumbnail(r1) /\ InCreateThumbnail(r2))
                   => outputPath[r1].createThumbnail # outputPath[r2].createThumbnail
            /\ pc[r1] \in {"finalMetadata", "createThumbnail"}
                   => processed[outputPath[r1].processImage].owner = r1

\* C10: an input with a side above 4096 is recorded as resized and written with
\* its larger side equal to 4096; an input within 4096 is not resized.
C10_LargerSideIsBound ==
    \A r \in Reqs :
        written[r] # NoFile =>
            IF metadata[r].width > 4096 \/ metadata[r].height > 4096
            THEN /\ preprocessing[r].resized
                 /\ Max(written[r].width, written[r].height) = 4096
            ELSE /\ ~preprocessing[r].resized
                 /\ "resize" \notin Range(written[r].ops)

\* The mean of the per-channel standard deviations of the statistics exceeds 30
NoisyByStats(stats) ==
    /\ stats.ok
    /\ Len(stats.channels) > 0
    /\ SumStdev(stats.channels) > 30 * Len(stats.channels)

\* C11: once the noise stage has run, the median filter is queued and
\* noiseReduction recorded exactly when the mean of the per-channel standard
\* deviations of the original image is strictly above 30; before it has run,
\* neither is.
C11_DenoiseIffMeanStdevAbove30 ==
    \A r \in Reqs :
        /\ preprocessing[r].noiseReduction <=> "median" \in Range(pipeline[r].ops)
        /\ Decided(r) => (preprocessing[r].noiseReduction <=> NoisyByStats(upload[r].stats))
        /\ preprocessing[r].noiseReduction => NoisyByStats(upload[r].stats)

\* A file was written from three channels whose standard deviations average
\* exactly 30, and it was not denoised
C11_Witness ==
    /\ written[1] # NoFile
    /\ upload[1].stats = Stats(<<Ch(130, 30), Ch(130, 30), Ch(130, 30)>>)
    /\ ~preprocessing[1].noiseReduction
    /\ "median" \notin Range(written[1].ops)

\* The factor (in hundredths) the claim gives for a first-channel mean / stdev
BrightnessFactorOf(mean) ==
    CASE mean < 80  -> 120
      [] mean > 180 -> 90
      [] OTHER      -> 100
ContrastFactorOf(stdev) ==
    CASE stdev < 20 -> 115
      [] stdev > 60 -> 95
      [] OTHER      -> 100

\* C12: the factors come from the first channel alone (1.2 / 0.9 / 1.0 by its
\* mean against 80 and 180, 1.15 / 0.95 / 1.0 by its stdev against 20 and 60, the
\* thresholds themselves giving 1.0); once the stage has run, the modulation is
\* queued iff a factor differs from 1.0, and brightnessAdjusted and
\* contrastEnhanced are recorded exactly for the factors that differ.
C12_AdjustmentFromFirstChannel ==
    \A r \in Reqs :
        (Decided(r) /\ upload[r].stats.ok /\ Len(upload[r].stats.channels) > 0) =>
            LET first == upload[r].stats.channels[1]
                b == BrightnessFactorOf(first.mean)
                c == ContrastFactorOf(first.stdev)
            IN /\ analyzeImageQuality(upload[r].stats) = [contrast |-> c, brightness |-> b]
               /\ preprocessing[r].brightnessAdjusted <=> b # 100
               /\ preprocessing[r].contrastEnhanced <=> c # 100
               /\ "modulate" \in Range(pipeline[r].ops) <=> (b # 100 \/ c # 100)

\* A file was written whose first channel has mean exactly 80 (factor 1.0) and
\* an ordinary stdev: no modulation, no flag
C12_Witness ==
    /\ written[1] # NoFile
    /\ upload[1].stats = Stats(<<Ch(80, 30)>>)
    /\ ~preprocessing[1].brightnessAdjusted
    /\ ~preprocessing[1].contrastEnhanced
    /\ "modulate" \notin Range(written[1].ops)

\* The source format, compared without regard to case, is jpeg
IsJpeg(format) == format \in {"jpeg", "JPEG", "Jpeg"}

\* C13: once the format stage has run, formatConverted is recorded exactly when
\* the source format is not jpeg in any spelling; either way the encoder is JPEG
\* at quality 85, progressive, and every written file is jpeg.
C13_FormatConvertedIffNotJpeg ==
    \A r \in Reqs :
        /\ pc[r] \in {"toFile", "finalMetadata", "createThumbnail", "respond"} =>
               /\ preprocessing[r].formatConverted <=> ~IsJpeg(metadata[r].format)
               /\ Encoder(Last(pipeline[r].ops)) =
                      [format |-> "jpeg", quality |-> 85, progressive |-> TRUE]
        /\ written[r] # NoFile =>
               /\ written[r].format = "jpeg"
               /\ preprocessing[r].formatConverted <=> ~IsJpeg(metadata[r].format)
        /\ Succeeded(r) => finalMetadata[r].format = "jpeg"

\* A source whose format is spelled JPEG has been written, not recorded as converted
C13_Witness ==
    /\ Succeeded(1)
    /\ metadata[1].format = "JPEG"
    /\ ~preprocessing[1].formatConverted
    /\ finalMetadata[1].format = "jpeg"

\* C14: the record of every processImage that succeeded has sharpeningApplied,
\* and the file it wrote was sharpened, whatever the other stages decided.
C14_SharpeningAlways ==
    \A r \in Reqs :
        /\ written[r] # NoFile =>
               /\ preprocessing[r].sharpeningApplied
               /\ "sharpen" \in Range(written[r].ops)
        /\ Succeeded(r) => preprocessing[r].sharpeningApplied

\* processImage succeeded with the noise reduction fired and sharpening applied
C14_Witness ==
    /\ Succeeded(1)
    /\ preprocessing[1].noiseReduction
    /\ preprocessing[1].sharpeningApplied
    /\ "sharpen" \in Range(written[1].ops)

\* The penalties the claim states, summed
PenaltyOf(q) ==
    (IF q.brightness \in 80..180 THEN 0 ELSE 20)
    + (IF q.contrast < 20 THEN 25 ELSE IF q.contrast > 60 THEN 10 ELSE 0)
    + (IF q.noise > 30 THEN 20 ELSE IF q.noise > 20 THEN 10 ELSE 0)
    + (IF q.sharpness < 30 THEN 25 ELSE IF q.sharpness < 50 THEN 10 ELSE 0)

\* The overall band the claim states for a score
BandOf(score) ==
    CASE score >= 85 -> "Excellent"
      [] score \in 70..84 -> "Good"
      [] score \in 55..69 -> "Fair"
      [] score \in 40..54 -> "Poor"
      [] OTHER -> "Very Poor"

\* C15: the score is 100 less the penalties (20 for brightness outside
\* [80,180]; 25 for contrast < 20, else 10 for > 60; 20 for noise > 30, else 10
\* for > 20; 25 for sharpness < 30, else 10 for < 50), kept within [0,100], and
\* the overall band is excellent from 85, good from 70, fair from 55, poor from
\* 40, very poor below.
C15_ScoreFormulaAndBand ==
    quality.analysed =>
        /\ quality.score = Max(0, Min(100, 100 - PenaltyOf(quality)))
        /\ quality.assessment.overall = BandOf(quality.score)

\* An image scored exactly 70 (contrast above 60, noise above 30) is good
C15_Witness ==
    /\ quality.analysed
    /\ quality.contrast = 61
    /\ quality.noise = 31
    /\ quality.score = 70
    /\ quality.assessment.overall = "Good"

\* C16: every value gets exactly the band of the interval it lies in:
\* brightness <50, [50,80), [80,180], (180,200], >200; contrast <15, [15,25),
\* [25,60], (60,70], >70; noise >40, (25,40], (15,25], <=15; sharpness <20,
\* [20,35), [35,50), >=50.
C16_BandsByInterval ==
    quality.analysed =>
        LET b == quality.brightness
            c == quality.contrast
            n == quality.noise
            s == quality.sharpness
            a == quality.assessment
        IN /\ a.brightness = "Too dark" <=> b < 50
           /\ a.brightness = "Slightly dark" <=> b \in 50..79
           /\ a.brightness = "Good" <=> b \in 80..180
           /\ a.brightness = "Slightly bright" <=> b \in 181..200
           /\ a.brightness = "Too bright" <=> b > 200
           /\ a.contrast = "Very low contrast" <=> c < 15
           /\ a.contrast = "Low contrast" <=> c \in 15..24
           /\ a.contrast = "Good" <=> c \in 25..60
           /\ a.contrast = "High contrast" <=> c \in 61..70
           /\ a.contrast = "Very high contrast" <=> c > 70
           /\ a.noise = "Very noisy" <=> n > 40
           /\ a.noise = "Noisy" <=> n \in 26..40
           /\ a.noise = "Slightly noisy" <=> n \in 16..25
           /\ a.noise = "Low noise" <=> n <= 15
           /\ a.sharpness = "Very blurry" <=> s < 20
           /\ a.sharpness = "Blurry" <=> s \in 20..34
           /\ a.sharpness = "Slightly soft" <=> s \in 35..49
           /\ a.sharpness = "Sharp" <=> s >= 50

\* An image measured on four band boundaries: brightness 200, contrast 25,
\* noise 25, sharpness 35
C16_Witness ==
    /\ quality.analysed
    /\ quality.brightness = 200 /\ quality.assessment.brightness = "Slightly bright"
    /\ quality.contrast = 25 /\ quality.assessment.contrast = "Good"
    /\ quality.noise = 25 /\ quality.assessment.noise = "Slightly noisy"
    /\ quality.sharpness = 35 /\ quality.assessment.sharpness = "Slightly soft"

\* Every sample of the raster is the same
Flat(pixels) ==
    \A y \in 1..Len(pixels) : \A x \in 1..Len(pixels[1]) : pixels[y][x] = pixels[1][1]

\* Two samples next to each other, in a row or in a column, differ
HasEdge(pixels) ==
    \E y \in 1..Len(pixels) : \E x \in 1..Len(pixels[1]) :
        \/ x < Len(pixels[1]) /\ pixels[y][x] # pixels[y][x + 1]
        \/ y < Len(pixels) /\ pixels[y][x] # pixels[y + 1][x]

\* C17: the sharpness estimate is never negative; when the raster was convolved
\* it is 0 for a flat raster and strictly positive for one with an edge.
C17_SharpnessZeroOnFlatPositiveOnEdge ==
    \A r \in Reqs :
        /\ analysis[r].measures.sharpness >= 0
        /\ analysis[r].measures.convolved =>
               /\ Flat(analysis[r].upload.pixels) => analysis[r].measures.sharpness = 0
               /\ HasEdge(analysis[r].upload.pixels) => analysis[r].measures.sharpness > 0

\* The raster with the faintest edge, 100 next to 101, was convolved and its
\* estimate is positive
C17_Witness ==
    /\ analysis[1].measures.convolved
    /\ analysis[1].upload.pixels = <<<<100, 101>>>>
    /\ analysis[1].measures.sharpness > 0

\* C18: whatever the sides of the input and the size requested, the thumbnail
\* createThumbnail writes is size x size.
C18_ThumbnailIsSquareOfSize ==
    thumb.called =>
        /\ thumb.output.width = thumb.size
        /\ thumb.output.height = thumb.size

\* A thumbnail of the default size was made of an image 1 wide and 4096 high
C18_Witness ==
    /\ thumb.called
    /\ thumb.input = [width |-> 1, height |-> 4096]
    /\ thumb.size = 150
    /\ thumb.output = [width |-> 150, height |-> 150]

\* The suggestions in their fixed order
SuggestionOrder ==
    <<"Consider resizing for faster processing",
      "Convert to JPEG or PNG for better compatibility",
      "Brightness adjustment recommended",
      "Contrast enhancement recommended",
      "Noise reduction recommended",
      "Sharpening recommended",
      "Auto-rotation needed">>

\* The condition the claim states for a suggestion, on the metadata and the
\* measures of analysis a
SuggestionDue(a, suggestion) ==
    CASE suggestion = SuggestionOrder[1] ->
             a.metadata.width > 4096 \/ a.metadata.height > 4096
      [] suggestion = SuggestionOrder[2] ->
             a.metadata.format \notin {"jpeg", "JPEG", "jpg", "JPG", "png", "PNG"}
      [] suggestion = SuggestionOrder[3] -> a.measures.brightness \notin 80..180
      [] suggestion = SuggestionOrder[4] -> a.measures.contrast \notin 25..60
      [] suggestion = SuggestionOrder[5] -> a.measures.noise > 15
      [] suggestion = SuggestionOrder[6] -> a.measures.sharpness < 500
      [] suggestion = SuggestionOrder[7] -> a.metadata.orientation \notin {0, 1}

\* C19: the recommendations of an answered request are exactly the suggestions
\* whose condition holds (a side above 4096; a format other than jpeg, jpg, png;
\* brightness, contrast, noise, sharpness outside their good band; an orientation
\* tag present and not 1), in the order resize, format, brightness, contrast,
\* noise, sharpening, rotation.
C19_RecommendationsAreDueSuggestions ==
    \A r \in Reqs :
        analysis[r].response.status = 200 =>
            LET Due(suggestion) == SuggestionDue(analysis[r], suggestion)
            IN analysis[r].recommendations = SelectSeq(SuggestionOrder, Due)

\* A request was answered with all seven suggestions
C19_Witness ==
    /\ analysis[1].response.status = 200
    /\ analysis[1].recommendations = SuggestionOrder

\* C20: a file written from a source whose sides are both at least 224 has
\* both its sides at least 224.
C20_OutputAtLeastMinSize ==
    \A r \in Reqs :
        (written[r] # NoFile /\ metadata[r].width >= 224 /\ metadata[r].height >= 224) =>
            /\ written[r].width >= 224
            /\ written[r].height >= 224

\* The statistics of the upload of request r are unavailable: the read throws, or
\* it yields no channel
StatsUnavailable(r) ==
    /\ upload[r] # NoUpload
    /\ \/ ~upload[r].stats.ok
       \/ Len(upload[r].stats.channels) = 0

\* C21: when the channel statistics of the input are unavailable (the read
\* throws, or there is no channel), both adjustment factors are the neutral 1.0,
\* neither the median filter nor the modulation is ever queued, the three flags
\* noiseReduction, contrastEnhanced and brightnessAdjusted stay false, and the
\* noise and adjustment stages hand over to the next stage: processImage does
\* not end there.
C21_StatsUnavailableIsNeutral ==
    /\ [](\A r \in Reqs :
            StatsUnavailable(r) =>
                /\ analyzeImageQuality(upload[r].stats) = [contrast |-> 100, brightness |-> 100]
                /\ ~detectNoise(upload[r].stats)
                /\ "median" \notin Range(pipeline[r].ops)
                /\ "modulate" \notin Range(pipeline[r].ops)
                /\ ~preprocessing[r].noiseReduction
                /\ ~preprocessing[r].contrastEnhanced
                /\ ~preprocessing[r].brightnessAdjusted)
    /\ [][\A r \in Reqs :
            (StatsUnavailable(r) /\ pc[r] \in {"detectNoise", "analyzeImageQuality"}
                                 /\ pc'[r] # pc[r])
                => /\ pc'[r] = StageAfter(pc[r])
                   /\ response'[r] = NoResponse
                   /\ r \in originals']_vars

\* A file was written from an upload whose statistics read throws, with no
\* median filter, no modulation and no flag
C21_Witness ==
    /\ Succeeded(1)
    /\ upload[1].stats = StatsThrows
    /\ "median" \notin Range(written[1].ops)
    /\ "modulate" \notin Range(written[1].ops)
    /\ ~preprocessing[1].noiseReduction
    /\ ~preprocessing[1].contrastEnhanced
    /\ ~preprocessing[1].brightnessAdjusted
    /\ response[1].status = 200

\* Analyze request r was answered with a report made from a statistics read that
\* yielded no channel
AnsweredWithoutChannels(r) ==
    /\ analysis[r].pc = "done"
    /\ analysis[r].response.status = 200
    /\ analysis[r].upload.image.stats.ok
    /\ Len(analysis[r].upload.image.stats.channels) = 0

\* C22: when the statistics read yields an empty channel sequence, the report
\* gives none of the four dimensions its good band: brightness is not "Good",
\* contrast is not "Good", noise is not "Low noise", sharpness is not "Sharp".
C22_NoGoodBandWithoutChannels ==
    \A r \in Reqs :
        AnsweredWithoutChannels(r) =>
            /\ analysis[r].quality.brightness.assessment # "Good"
            /\ analysis[r].quality.contrast.assessment # "Good"
            /\ analysis[r].quality.noise.assessment # "Low noise"
            /\ analysis[r].quality.sharpness.assessment # "Sharp"

\* The path at position i of the list is on disk when the loop reaches it: it
\* was there before the call and no earlier position deleted it
OnDiskAt(i) ==
    /\ cleanup.paths[i] \in cleanup.before
    /\ \A j \in 1..(i - 1) :
          cleanup.paths[j] = cleanup.paths[i] => cleanup.paths[j] \in cleanup.failing

\* The positions of the list at which a deletion failed, in order
RECURSIVE FailedUpTo(_)
FailedUpTo(n) ==
    IF n = 0 THEN <<>>
    ELSE IF OnDiskAt(n) /\ cleanup.paths[n] \in cleanup.failing
         THEN Append(FailedUpTo(n - 1), cleanup.paths[n])
         ELSE FailedUpTo(n - 1)

\* C23: a call of cleanupTempFiles does not throw; every position of the list is
\* dealt with, whatever failed before it: a path that is not on disk is skipped,
\* a path whose deletion fails is logged and stays on disk, every other path is
\* deleted; nothing outside the list is touched.
C23_CleanupBestEffort ==
    cleanup.called =>
        /\ ~cleanup.raised
        /\ Len(cleanup.outcome) = Len(cleanup.paths)
        /\ \A i \in 1..Len(cleanup.paths) :
              cleanup.outcome[i] =
                  IF ~OnDiskAt(i) THEN "skipped"
                  ELSE IF cleanup.paths[i] \in cleanup.failing THEN "failed"
                  ELSE "deleted"
        /\ cleanup.logged = FailedUpTo(Len(cleanup.paths))
        /\ cleanup.files =
              cleanup.before \ {f \in Range(cleanup.paths) : f \notin cleanup.failing}

\* A list of three paths: the first is missing, the deletion of the second
\* fails, the third is deleted all the same
C23_Witness ==
    /\ cleanup.called
    /\ cleanup.paths = <<"upload-a", "upload-b", "upload-c">>
    /\ cleanup.outcome = <<"skipped", "failed", "deleted">>
    /\ cleanup.logged = <<"upload-b">>
    /\ cleanup.files = {"upload-b"}
    /\ ~cleanup.raised

\* The file of request r is never deleted while processImage reads it, and it is
\* gone when an error response has been sent for a request that carried a file
OriginalKeptWhileReadGoneOnError ==
    \A r \in Reqs :
        /\ InProcessImage(r) => r \in originals
        /\ (pc[r] = "done" /\ upload[r] # NoUpload /\ response[r].status # 200)
               => r \notin originals

\* The deferred cleanup of request r ran, and the deletion of its upload failed
\* and was logged
CleanupFailedFor(r) ==
    /\ cleanup.called
    /\ cleanup.paths = <<r>>
    /\ cleanup.outcome = <<"failed">>
    /\ cleanup.logged = <<r>>
    /\ r \notin timers

C25_RotationFallbackOrder ==
    /\ [](\A r \in Reqs :
            /\ pc[r] = "detectRotationJimp" => rotation[r].threw = <<"primary">>
            /\ rotation[r].via = "primary" =>
                   /\ rotation[r].threw = <<>>
                   /\ rotation[r].angle = TagAngle(upload[r].tag)
            /\ rotation[r].via = "secondary" => rotation[r].threw = <<"primary">>
            /\ rotation[r].via = "default" =>
                   /\ rotation[r].threw = <<"primary", "secondary">>
                   /\ rotation[r].angle = 0)
    /\ [][\A r \in Reqs :
            /\ (pc[r] = "detectRotation" /\ pc'[r] # pc[r])
                   => /\ pc'[r] \in {"detectRotationJimp", "rotate"}
                      /\ response'[r] = NoResponse
            /\ (pc[r] = "detectRotationJimp" /\ pc'[r] # pc[r])
                   => /\ pc'[r] = "rotate"
                      /\ response'[r] = NoResponse
            /\ pc'[r] = "detectRotationJimp" =>
                   pc[r] \in {"detectRotation", "detectRotationJimp"}]_vars

\* The primary parse completed on an image with an orientation tag it does not
\* map (1): angle 0 from the primary path, nothing thrown, and the pipeline went on
C25_Witness ==
    /\ upload[1].tag = 1
    /\ rotation[1].via = "primary"
    /\ rotation[1].angle = 0
    /\ rotation[1].threw = <<>>
    /\ Succeeded(1)

\* Request r of the upload route and request a of the analyze route carried the
\* same image; the pipeline has taken its decisions and the analysis was answered
SameImageBothDone(r, a) ==
    /\ upload[r] # NoUpload
    /\ analysis[a].upload.image = upload[r]
    /\ Decided(r)
    /\ analysis[a].response.status = 200

\* C26: for the same image, what the pipeline applied is recommended: a rotation
\* applied implies "Auto-rotation needed", resized implies the resizing
\* suggestion, noiseReduction "Noise reduction recommended", brightnessAdjusted
\* "Brightness adjustment recommended", contrastEnhanced "Contrast enhancement
\* recommended", in the list the analyze route answered.
C26_AppliedImpliesRecommended ==
    \A r \in Reqs, a \in Reqs :
        SameImageBothDone(r, a) =>
            LET list == Range(analysis[a].recommendations)
            IN /\ preprocessing[r].rotationApplied # 0 => "Auto-rotation needed" \in list
               /\ preprocessing[r].resized =>
                      "Consider resizing for faster processing" \in list
               /\ preprocessing[r].noiseReduction => "Noise reduction recommended" \in list
               /\ preprocessing[r].brightnessAdjusted =>
                      "Brightness adjustment recommended" \in list
               /\ preprocessing[r].contrastEnhanced =>
                      "Contrast enhancement recommended" \in list

\* An image whose first channel has mean 79 was brightened by the pipeline, and
\* the brightness adjustment is in the analyze route's list
C26_Witness ==
    /\ SameImageBothDone(1, 1)
    /\ upload[1].stats = Stats(<<Ch(79, 30)>>)
    /\ preprocessing[1].brightnessAdjusted
    /\ "Brightness adjustment recommended" \in Range(analysis[1].recommendations)

\* C27: the list answered for an image holds "Auto-rotation needed" exactly when
\* detectRotation maps the image's orientation tag to a non-zero angle (on its
\* primary path and on its secondary one).
C27_RotationSuggestedIffResolved ==
    \A r \in Reqs :
        analysis[r].response.status = 200 =>
            LET tag == analysis[r].metadata.orientation
                suggested == "Auto-rotation needed" \in Range(analysis[r].recommendations)
            IN /\ suggested <=> PrimaryAngle(tag) # 0
               /\ suggested <=> SecondaryAngle(tag) # 0

\* The good band of each dimension, and a value at the centre of its ideal range
GoodBand ==
    [brightness |-> "Good", contrast |-> "Good", noise |-> "Low noise", sharpness |-> "Sharp"]
Centre(d) == (Ideal[d][1] + Ideal[d][2]) \div 2

\* C28: a measured value inside the ideal range the report gives for its
\* dimension (brightness 80..180, contrast 20..60, noise 0..20, sharpness
\* 50..100) gets that dimension's good band and costs nothing: the score is what
\* it would be with the value at the centre of the range, and 100 when all four
\* values are inside their ranges.
C28_IdealRangeIsGoodBand ==
    quality.analysed =>
        /\ \A d \in Dimensions :
              quality[d] \in Ideal[d][1]..Ideal[d][2] =>
                  /\ quality.assessment[d] = GoodBand[d]
                  /\ quality.score = Scored([quality EXCEPT ![d] = Centre(d)]).score
        /\ (\A d \in Dimensions : quality[d] \in Ideal[d][1]..Ideal[d][2])
               => quality.score = 100

\* Analyze request r has stored its upload and has not answered yet: it is
\* reading the file
AnalyzeInFlight(r) ==
    analysis[r].pc \in {"getImageMetadata", "stats", "estimateNoise", "estimateSharpness"}

\* C29: no two analyze requests in flight are stored under the same temporary
\* path, and the file of a request in flight is on disk and is its own: no other
\* request's cleanup has removed it, no other request's upload has replaced it.
C29_AnalyzeTempFilesApart ==
    /\ \A r1, r2 \in Reqs :
          (r1 # r2 /\ AnalyzeInFlight(r1) /\ AnalyzeInFlight(r2))
              => analysis[r1].path # analysis[r2].path
    /\ \A r \in Reqs :
          AnalyzeInFlight(r) =>
              /\ temp[analysis[r].path] # NoTemp
              /\ temp[analysis[r].path].owner = r

\* C30: for a source of positive sides of which at least one exceeds MAX_SIZE,
\* calculateTargetDimensions returns a width and a height of at least 1.
C30_TargetDimensionsPositive ==
    \A r \in Reqs :
        (/\ metadata[r] # NoMetadata
         /\ metadata[r].width >= 1 /\ metadata[r].height >= 1
         /\ (metadata[r].width > MAX_SIZE \/ metadata[r].height > MAX_SIZE)
         /\ pc[r] \notin {"detectRotation", "detectRotationJimp", "rotate", "resize"}) =>
            LET target == calculateTargetDimensions(metadata[r].width, metadata[r].height,
                                                    MAX_SIZE, MAX_SIZE)
            IN /\ target.width >= 1
               /\ target.height >= 1

====
